---- MODULE Spec2Model ----
(***************************************************************************)
(* Agent Session Runtime of LocalDesk (Cowork-Local-LLM): the event        *)
(* router's two routing decisions, the tool list offered to the model,     *)
(* the QuickJS sandbox behind execute_js, the render_page tool (shared     *)
(* BrowserView version and hidden-window version with retries), the        *)
(* list-directory handler, the scheduler form's descriptor parser, and    *)
(* the prompt input with the session's agent loop behind it.               *)
(*                                                                         *)
(* JavaScript values: null and undefined are the strings NULL and UNDEF,   *)
(* which no identifier, key or path of the model equals.  Text that the    *)
(* code inspects character by character (paths, schedule descriptors) is   *)
(* a sequence of one-character strings.                                    *)
(***************************************************************************)
EXTENDS Integers, Sequences, FiniteSets, TLC

NULL == "<null>"
UNDEF == "<undefined>"
JsTrue == "<true>"
JsFalse == "<false>"

\* JavaScript truthiness of the (non-numeric) values the model uses.
Truthy(v) == v \notin {NULL, UNDEF, "", JsFalse}

VARIABLES
  \* ---- event router (electron/libs/notification-routing.ts, ui/utils/history-sync.ts)
  focusedSessionId,   \* main process: the session the focused window shows, or NULL
  activeSessionId,    \* renderer: the session the UI has open, or NULL
  notifyDecision,     \* last shouldNotifyForSession call: its arguments and result
  staleDecision,      \* last shouldMarkHistoryStale call: its arguments and result
  partialDecision,    \* last shouldHandlePartialMessage call: its arguments and result
  \* ---- tool list (libs/tools-definitions)
  settings,           \* ApiSettings | null
  offered,            \* the last tool list handed to the model (by = NULL: none yet)
  \* ---- file browser IPC (electron/main.ts)
  sessions,           \* the session store: the cwd of each stored session (<<>>: none)
  listing,            \* the list-directory invocation in progress, or its response
  \* ---- execute_js (libs/tools/execute-js-tool, libs/container/quickjs-sandbox)
  thread,             \* the execute_js call running on the host's JavaScript thread, or NULL
  quickJsModule,      \* the cached QuickJS WASM module: NULL until loaded
  call,               \* per execute_js call: position, arguments, context, result
  hostFs,             \* the host file-system access made by the step just taken
  globalRead,         \* the global name the script read in the step just taken
  \* ---- render_page over the shared BrowserView (libs/tools/render-page-tool.ts)
  renderView,         \* the process-wide BrowserView: created, attached, page shown
  vcall,              \* per render_page call: position, url, page extracted
  \* ---- render_page over a hidden window per attempt (render-page-tool, retry version)
  wcall,              \* per render_page call: position, attempt, timers, window
  \* ---- scheduler tab (SchedulerTab component)
  form,               \* showForm, title, schedule, isSubmitting
  created,            \* what the last click on "Create Task" did: alert, event sent
  \* ---- prompt input and the agent loop behind it (ui/components/PromptInput.tsx)
  store,              \* renderer store: activeSessionId, prompt, attachments, session status
  intents,            \* client events sent and not yet handled by the loop engine
  engine,             \* the session's loop: status, phase, batch in flight, history
  sent,               \* what the prompt handler run in the step just taken did
  \* ---- the scheduler service's task store
  task,               \* the scheduled task followed from its creation, or NoTask
  fired,              \* the firing made by the step just taken
  \* ---- image IPC handlers (agent/main.ts)
  preview,            \* what the last get-image-preview call did
  pasted,             \* what the last save-pasted-image call did
  \* ---- skills settings store
  skillsFile,         \* skills-settings.json: marketplaceUrl, skills, lastFetched
  skillOp,            \* the store operation made by the step just taken
  toggledOnSince      \* history: the skills switched on while listed and listed ever since

routerVars == <<focusedSessionId, activeSessionId, notifyDecision, staleDecision, partialDecision>>
toolVars == <<settings, offered>>
fileVars == <<sessions, listing>>

sandboxVars == <<thread, quickJsModule, call, hostFs, globalRead>>
viewVars == <<renderView, vcall>>
windowVars == <<wcall>>
schedulerVars == <<form, created>>
promptVars == <<store, intents, engine, sent>>
firingVars == <<task, fired>>
imageVars == <<preview, pasted>>
skillVars == <<skillsFile, skillOp, toggledOnSince>>

vars == <<routerVars, toolVars, fileVars, sandboxVars, viewVars, windowVars, schedulerVars, promptVars, firingVars, imageVars, skillVars>>

\* The subsystems share no state: what each one's actions leave unchanged.
notRouter == <<toolVars, fileVars, sandboxVars, viewVars, windowVars, schedulerVars, promptVars, firingVars, imageVars, skillVars>>
notTools == <<routerVars, fileVars, sandboxVars, viewVars, windowVars, schedulerVars, promptVars, firingVars, imageVars, skillVars>>
notFiles == <<routerVars, toolVars, sandboxVars, viewVars, windowVars, schedulerVars, promptVars, firingVars, imageVars, skillVars>>
notSandbox == <<routerVars, toolVars, fileVars, viewVars, windowVars, schedulerVars, promptVars, firingVars, imageVars, skillVars>>
notView == <<routerVars, toolVars, fileVars, sandboxVars, windowVars, schedulerVars, promptVars, firingVars, imageVars, skillVars>>
notWindow == <<routerVars, toolVars, fileVars, sandboxVars, viewVars, schedulerVars, promptVars, firingVars, imageVars, skillVars>>
notScheduler == <<routerVars, toolVars, fileVars, sandboxVars, viewVars, windowVars, promptVars, firingVars, imageVars, skillVars>>
notPrompt == <<routerVars, toolVars, fileVars, sandboxVars, viewVars, windowVars, schedulerVars, firingVars, imageVars, skillVars>>
notFiring == <<routerVars, toolVars, fileVars, sandboxVars, viewVars, windowVars, schedulerVars, promptVars, imageVars, skillVars>>
notImages == <<routerVars, toolVars, fileVars, sandboxVars, viewVars, windowVars, schedulerVars, promptVars, firingVars, skillVars>>
notSkills == <<routerVars, toolVars, fileVars, sandboxVars, viewVars, windowVars, schedulerVars, promptVars, firingVars, imageVars>>

-----------------------------------------------------------------------------
(* Event router *)

SessionIds == {"A", "B"}
SessionStatuses == {"idle", "running", "completed", "error", "stopped"}

\* notification-routing.ts:1-10
\* Variant that ignores which session is focused.
shouldNotifyForSession_NoFocusCheck(status, sessionId, focused) ==
  IF status # "completed" /\ status # "error" THEN FALSE
  ELSE IF ~Truthy(sessionId) THEN FALSE
  ELSE TRUE

shouldNotifyForSession(status, sessionId, focused) ==
  IF status # "completed" /\ status # "error" THEN FALSE
  ELSE IF ~Truthy(sessionId) THEN FALSE
  ELSE IF ~Truthy(focused) THEN TRUE
  ELSE focused # sessionId

\* history-sync.ts:3-11
\* Variant that ignores the status.
shouldMarkHistoryStale_AnyStatus(active, sessionId, status) ==
  IF ~Truthy(active) THEN FALSE
  ELSE IF active = sessionId THEN FALSE
  ELSE status # "idle"

shouldMarkHistoryStale(active, sessionId, status) ==
  IF ~Truthy(active) THEN FALSE
  ELSE IF active = sessionId THEN FALSE
  ELSE status = "completed" \/ status = "error"

\* main.ts:514-520
\* Variant that handles the partial output of any session while one is focused.
shouldHandlePartialMessage_AnyFocused(active, eventSessionId) ==
  IF ~Truthy(active) \/ ~Truthy(eventSessionId) THEN FALSE
  ELSE TRUE

shouldHandlePartialMessage(active, eventSessionId) ==
  IF ~Truthy(active) \/ ~Truthy(eventSessionId) THEN FALSE
  ELSE active = eventSessionId

NoPartialDecision == [sessionId |-> NULL, focused |-> NULL, handle |-> FALSE]

RouterInit ==
  /\ partialDecision = NoPartialDecision
  /\ focusedSessionId = NULL
  /\ activeSessionId = NULL
  /\ notifyDecision = [status |-> NULL, sessionId |-> NULL, focused |-> NULL, notify |-> FALSE]
  /\ staleDecision = [status |-> NULL, sessionId |-> NULL, active |-> NULL, stale |-> FALSE]

\* A window gains or loses focus in the main process.
FocusWindow(f) ==
  /\ focusedSessionId' = f
  /\ UNCHANGED <<activeSessionId, notifyDecision, staleDecision, partialDecision, notRouter>>

\* The UI opens another session (or none).
SetActiveSession(f) ==
  /\ activeSessionId' = f
  /\ UNCHANGED <<focusedSessionId, notifyDecision, staleDecision, partialDecision, notRouter>>

\* A session.status event reaches the main process' notification routing.
RouteNotification(status, sessionId) ==
  /\ notifyDecision' =
       [status |-> status, sessionId |-> sessionId, focused |-> focusedSessionId,
        notify |-> shouldNotifyForSession(status, sessionId, focusedSessionId)]
  /\ partialDecision' = NoPartialDecision
  /\ UNCHANGED <<focusedSessionId, activeSessionId, staleDecision, notRouter>>

\* A session.status event reaches the renderer's history sync.
RouteHistorySync(status, sessionId) ==
  /\ staleDecision' =
       [status |-> status, sessionId |-> sessionId, active |-> activeSessionId,
        stale |-> shouldMarkHistoryStale(activeSessionId, sessionId, status)]
  /\ partialDecision' = NoPartialDecision
  /\ UNCHANGED <<focusedSessionId, activeSessionId, notifyDecision, notRouter>>

\* A streamed partial message reaches the main process, which asks whether the
\* focused session is the one it belongs to. Of the decision records only the one
\* of the event routed last is kept.
RoutePartialMessage(eventSessionId) ==
  /\ partialDecision' =
       [sessionId |-> eventSessionId, focused |-> focusedSessionId,
        handle |-> shouldHandlePartialMessage(focusedSessionId, eventSessionId)]
  /\ notifyDecision' = [status |-> NULL, sessionId |-> NULL, focused |-> NULL, notify |-> FALSE]
  /\ staleDecision' = [status |-> NULL, sessionId |-> NULL, active |-> NULL, stale |-> FALSE]
  /\ UNCHANGED <<focusedSessionId, activeSessionId, notRouter>>

RouterNext ==
  \/ \E f \in SessionIds \cup {NULL, ""} : FocusWindow(f)
  \/ \E f \in SessionIds \cup {NULL, ""} : SetActiveSession(f)
  \/ \E st \in SessionStatuses, s \in SessionIds \cup {NULL, ""} : RouteNotification(st, s)
  \/ \E st \in SessionStatuses, s \in SessionIds \cup {""} : RouteHistorySync(st, s)
  \/ \E s \in SessionIds \cup {UNDEF, ""} : RoutePartialMessage(s)

-----------------------------------------------------------------------------
(* Tool list offered to the model *)

\* The registered tools (tools/index.js), by function name, in registration order.
ALL_TOOL_DEFINITIONS ==
  <<"run_command", "read_file", "execute_js", "manage_memory", "manage_todos",
    "read_page", "render_page">>

Flags == {UNDEF, JsFalse, JsTrue}
ApiKeys == {UNDEF, "", "zai-key"}

\* ApiSettings | null: null is the record NoSettings (isNull), whose fields read undefined.
NoSettings ==
  [isNull |-> TRUE, enableMemory |-> UNDEF, enableZaiReader |-> UNDEF, zaiApiKey |-> UNDEF]

SettingsValues ==
  {NoSettings} \cup
  [isNull : {FALSE}, enableMemory : Flags, enableZaiReader : Flags, zaiApiKey : ApiKeys]

\* settings?.field
Opt(s, field) == IF s.isNull THEN UNDEF ELSE s[field]

Filter(tools, removed) == SelectSeq(tools, LAMBDA name : name # removed)

\* unnamed/part_005:10-24
\* Variant that drops read_page only when both the flag and the key are missing.
getTools_AndInsteadOfOr(s) ==
  LET t1 == IF ~Truthy(Opt(s, "enableMemory"))
            THEN Filter(ALL_TOOL_DEFINITIONS, "manage_memory")
            ELSE ALL_TOOL_DEFINITIONS
  IN IF ~Truthy(Opt(s, "enableZaiReader")) /\ ~Truthy(Opt(s, "zaiApiKey"))
     THEN Filter(t1, "read_page")
     ELSE t1

getTools(s) ==
  LET t1 == IF ~Truthy(Opt(s, "enableMemory"))
            THEN Filter(ALL_TOOL_DEFINITIONS, "manage_memory")
            ELSE ALL_TOOL_DEFINITIONS
  IN IF ~Truthy(Opt(s, "enableZaiReader")) \/ ~Truthy(Opt(s, "zaiApiKey"))
     THEN Filter(t1, "read_page")
     ELSE t1

\* electron/libs/tools/render-page-tool.ts:257-276 (the logging variant)
getToolsLogged(s) ==
  LET t1 == IF ~Truthy(Opt(s, "enableMemory"))
            THEN Filter(ALL_TOOL_DEFINITIONS, "manage_memory")
            ELSE ALL_TOOL_DEFINITIONS
      zaiReaderEnabled == Opt(s, "enableZaiReader") = JsTrue
      hasZaiKey == Truthy(Opt(s, "zaiApiKey"))
  IN IF ~zaiReaderEnabled \/ ~hasZaiKey
     THEN Filter(t1, "read_page")
     ELSE t1

ToolsInit ==
  /\ settings = NoSettings
  /\ offered = [settings |-> NoSettings, tools |-> <<>>, by |-> NULL]

\* The user saves the settings dialog (or clears the settings).
SaveSettings(s) ==
  /\ settings' = s
  /\ UNCHANGED <<offered, notTools>>

\* A model turn is prepared with the tool list of the current settings.
OfferTools ==
  /\ offered' = [settings |-> settings, tools |-> getTools(settings), by |-> "getTools"]
  /\ UNCHANGED <<settings, notTools>>

OfferToolsLogged ==
  /\ offered' = [settings |-> settings, tools |-> getToolsLogged(settings), by |-> "getToolsLogged"]
  /\ UNCHANGED <<settings, notTools>>

ToolsNext ==
  \/ \E s \in SettingsValues : SaveSettings(s)
  \/ OfferTools
  \/ OfferToolsLogged

-----------------------------------------------------------------------------
(* Paths: node's path.resolve, String.prototype.toLowerCase, normalize("NFC"), *)
(* startsWith, over sequences of one-character strings (POSIX separators).   *)

sep == "/"

\* "^" stands for a combining accent, "q" for the precomposed accented a and "Q"
\* for its capital: "a^" is the decomposed form of "q", "A^" of "Q".
PathChars == {"/", ".", "a", "A", "^"}

\* The working directory of the host process, which relative paths resolve against.
ProcessCwd == <<"/">>

startsWith(s, prefix) ==
  /\ Len(prefix) <= Len(s)
  /\ SubSeq(s, 1, Len(prefix)) = prefix

endsWith(s, suffix) ==
  /\ Len(suffix) <= Len(s)
  /\ SubSeq(s, Len(s) - Len(suffix) + 1, Len(s)) = suffix

\* s.slice(1)
Slice1(s) == SubSeq(s, 2, Len(s))

\* The segments of s between separators ("" segments included).
RECURSIVE SplitPath(_)
SplitPath(s) ==
  IF \A i \in DOMAIN s : s[i] # sep THEN <<s>>
  ELSE LET i == CHOOSE k \in DOMAIN s : s[k] = sep /\ \A j \in 1..(k - 1) : s[j] # sep
       IN <<SubSeq(s, 1, i - 1)>> \o SplitPath(SubSeq(s, i + 1, Len(s)))

\* Segments with "" and "." dropped and ".." applied (never above the root).
RECURSIVE NormalizeSegments(_, _)
NormalizeSegments(segs, acc) ==
  IF segs = <<>> THEN acc
  ELSE LET h == Head(segs)
           acc2 == IF h = <<>> \/ h = <<".">> THEN acc
                   ELSE IF h = <<".", ".">>
                        THEN (IF acc = <<>> THEN acc ELSE SubSeq(acc, 1, Len(acc) - 1))
                        ELSE Append(acc, h)
       IN NormalizeSegments(Tail(segs), acc2)

RECURSIVE JoinSegments(_)
JoinSegments(segs) ==
  IF segs = <<>> THEN <<>>
  ELSE <<sep>> \o Head(segs) \o JoinSegments(Tail(segs))

isAbsolute(p) == Len(p) > 0 /\ p[1] = sep

\* path.resolve(base, p): p alone when absolute, else base/p; always normalized,
\* absolute, without a trailing separator.
resolve2(base, p) ==
  LET b == IF isAbsolute(base) THEN base ELSE ProcessCwd \o <<sep>> \o base
      full == IF isAbsolute(p) THEN p ELSE b \o <<sep>> \o p
      segs == NormalizeSegments(SplitPath(full), <<>>)
  IN IF segs = <<>> THEN <<sep>> ELSE JoinSegments(segs)

\* path.resolve(p)
resolve(p) == resolve2(ProcessCwd, p)

UpperCaseLetters == <<"A", "D", "E", "G", "H", "I", "J", "L", "M", "N", "P", "Q", "R", "T", "Y">>
LowerCaseLetters == <<"a", "d", "e", "g", "h", "i", "j", "l", "m", "n", "p", "q", "r", "t", "y">>

LowerChar(c) ==
  IF \E i \in DOMAIN UpperCaseLetters : UpperCaseLetters[i] = c
  THEN LowerCaseLetters[CHOOSE i \in DOMAIN UpperCaseLetters : UpperCaseLetters[i] = c]
  ELSE c

toLowerCase(s) == [i \in DOMAIN s |-> LowerChar(s[i])]

\* p is the folder root or lies beneath it, on a separator boundary.
IsWithinRoot(p, root) ==
  \/ p = root
  \/ startsWith(p, IF endsWith(root, <<sep>>) THEN root ELSE root \o <<sep>>)

\* Canonical composition: a base letter followed by the combining accent.
RECURSIVE NFC(_)
NFC(s) ==
  IF Len(s) < 2 THEN s
  ELSE IF s[2] = "^" /\ s[1] \in {"a", "A"}
       THEN <<IF s[1] = "a" THEN "q" ELSE "Q">> \o NFC(SubSeq(s, 3, Len(s)))
       ELSE <<s[1]>> \o NFC(Tail(s))

-----------------------------------------------------------------------------
(* list-directory IPC handler *)

MaxPathLen == 4
MaxSessions == 2

\* Every text of at most MaxPathLen characters: what a renderer may send as dirPath.
RequestPaths == UNION {[1..n -> PathChars] : n \in 0..MaxPathLen}

\* Workspace folders a session may be created with (<<>>: a chat without workspace).
WorkspaceRoots == {<<>>, <<"/", "a">>, <<"/", "q">>}

\* main.ts:163, 167-169, 179: resolve(p).toLowerCase().normalize("NFC")
normalizePath(p) == NFC(toLowerCase(resolve(p)))

\* main.ts:165-171: allSessions.find(...)?.cwd, <<>> when no session matches
RECURSIVE findSessionCwd(_, _)
findSessionCwd(allSessions, normalizedDirPath) ==
  IF allSessions = <<>> THEN <<>>
  ELSE LET cwd == Head(allSessions)
       IN IF cwd # <<>> /\ startsWith(normalizedDirPath, normalizePath(cwd))
          THEN cwd
          ELSE findSessionCwd(Tail(allSessions), normalizedDirPath)

\* main.ts:160-190: whether the handler goes on to fs.readdir(dirPath)
listDirectoryAllowed(allSessions, dirPath) ==
  LET normalizedDirPath == normalizePath(dirPath)
      sessionCwd == findSessionCwd(allSessions, normalizedDirPath)
  IN IF sessionCwd = <<>> THEN FALSE
     ELSE startsWith(normalizedDirPath, normalizePath(sessionCwd))

FilesInit ==
  /\ sessions = <<>>
  /\ listing = [phase |-> "idle", dirPath |-> <<>>, readdir |-> FALSE, entries |-> FALSE]

\* A session is stored with its workspace folder.
CreateSession(cwd) ==
  /\ Len(sessions) < MaxSessions
  /\ sessions' = Append(sessions, cwd)
  /\ UNCHANGED <<listing, notFiles>>

\* The renderer invokes "list-directory" with a path of its choice.
InvokeListDirectory(dirPath) ==
  /\ listing.phase = "idle"
  /\ listing' = [phase |-> "pending", dirPath |-> dirPath, readdir |-> FALSE, entries |-> FALSE]
  /\ UNCHANGED <<sessions, notFiles>>

\* main.ts:154-231: the handler.  fs.readdir may find the directory or throw (a
\* failed read is caught and answered with an empty list).
HandleListDirectory ==
  /\ listing.phase = "pending"
  /\ IF listDirectoryAllowed(sessions, listing.dirPath)
     THEN \E readdirOk \in BOOLEAN :
            listing' = [listing EXCEPT !.phase = "done", !.readdir = TRUE, !.entries = readdirOk]
     ELSE listing' = [listing EXCEPT !.phase = "done"]
  /\ UNCHANGED <<sessions, notFiles>>

\* The renderer consumes the response.
ListDirectoryReturned ==
  /\ listing.phase = "done"
  /\ listing' = [phase |-> "idle", dirPath |-> <<>>, readdir |-> FALSE, entries |-> FALSE]
  /\ UNCHANGED <<sessions, notFiles>>

FilesNext ==
  \/ \E cwd \in WorkspaceRoots : CreateSession(cwd)
  \/ \E p \in RequestPaths : InvokeListDirectory(p)
  \/ HandleListDirectory
  \/ ListDirectoryReturned

-----------------------------------------------------------------------------
(* execute_js: executeJSTool and executeInQuickJS *)

\* The host runs JavaScript on one thread: a call's synchronous stretch is a run
\* of steps taken while it holds `thread`; every await gives the thread up.
Calls == {"c1", "c2"}

MaxScriptCalls == 2

\* args.timeout: absent (NoTimeout) or a number of milliseconds.
NoTimeout == -1
DefaultTimeoutMs == 5000
MaxTimeoutMs == 30000
TimeoutArgs == {NoTimeout, 50, 2000, 60000}

\* What the submitted code does once its host calls are made: it returns a value,
\* throws, or never terminates (while (true) {}).  NoCode: args.code is missing.
NoCode == "<no code>"
CodeKinds == {"returns", "throws", "loops"}

FsOps == {"readFileSync", "writeFileSync", "existsSync", "readdirSync"}

\* Paths a script passes to the fs object.
ScriptPaths == {<<"a">>, <<"/", "a">>, <<".", ".">>, <<"/", ".", ".", "/", "a", "a">>}

\* context.cwd: the workspace folder of the session a call belongs to.
ContextCwds == {<<"/", "a">>}

Min(a, b) == IF a <= b THEN a ELSE b

\* execute-js-tool:62  Math.min(args.timeout || 5000, 30000)
effectiveTimeout(t) ==
  Min(IF t = NoTimeout \/ t = 0 THEN DefaultTimeoutMs ELSE t, MaxTimeoutMs)

\* context.isPathSafe: the resolved path lies within the session's workspace root.
isPathSafe(cwd, fullPath) == IsWithinRoot(normalizePath(fullPath), normalizePath(cwd))

\* quickjs-sandbox:136, 155, 173, 181
sandboxFullPath(cwd, filePath) ==
  resolve2(cwd, IF startsWith(filePath, <<sep>>) THEN Slice1(filePath) ELSE filePath)

\* The two functions above on the arguments the scripts of the model use, tabulated.
fullPathOf ==
  [cwd \in ContextCwds, filePath \in ScriptPaths |-> sandboxFullPath(cwd, filePath)]

pathSafeOf ==
  [cwd \in ContextCwds, filePath \in ScriptPaths |->
     isPathSafe(cwd, sandboxFullPath(cwd, filePath))]

\* quickjs-sandbox:138, 157, 183: the fs functions that ask isPathSafe first
fsChecksPath(op) == op \in {"readFileSync", "writeFileSync", "readdirSync"}

\* quickjs-sandbox:250-252: the interrupt handler the engine polls while it runs
interruptHandler(c) == FALSE

idleCall ==
  [pc |-> "idle", code |-> NoCode, timeoutArg |-> NoTimeout, timeout |-> 0,
   cwd |-> <<>>, vm |-> "none", hostCalls |-> 0, spin |-> FALSE,
   success |-> FALSE, error |-> "none"]

\* op = NULL: the step made no fs call.  touched: the host file system was accessed.
noHostFs ==
  [op |-> NULL, cwd |-> <<>>, path |-> <<>>, checked |-> FALSE, denied |-> FALSE,
   touched |-> FALSE]

\* quickjs-sandbox:128, 203, 241, 246: the globals the setup installs with
\* vm.setProp(vm.global, ...).
\* Variant that also hands the host's process object to the script.
InjectedGlobals_WithProcess == {"console", "fs", "path", "__dirname", "process"}

InjectedGlobals == {"console", "fs", "path", "__dirname"}

\* What a new QuickJS context has by itself: the language's intrinsics, none of
\* the Node.js globals.
EngineGlobals == {"JSON"}

contextGlobals == EngineGlobals \cup InjectedGlobals

\* The names a script may try to use.
ScriptGlobalNames ==
  {"console", "fs", "path", "__dirname", "JSON", "process", "require", "fetch"}

\* What a global name stands for ("process" also carries process.env).
capabilityOf(name) ==
  IF name = "console" THEN "logging sink"
  ELSE IF name = "fs" THEN "file API"
  ELSE IF name \in {"path", "__dirname"} THEN "path helpers"
  ELSE IF name \in {"process", "require"} THEN "process control and environment"
  ELSE IF name = "fetch" THEN "network"
  ELSE "language"

noGlobalRead == [name |-> NULL, found |-> FALSE]

SandboxInit ==
  /\ thread = NULL
  /\ quickJsModule = NULL
  /\ call = [c \in Calls |-> idleCall]
  /\ hostFs = noHostFs
  /\ globalRead = noGlobalRead

\* execute-js-tool:58-75 up to the first await of executeInQuickJS (quickjs-sandbox:77,
\* 54-61).  args.code.length (line 67) throws before the try when code is missing.
InvokeExecuteJS(c, code, timeoutArg, cwd) ==
  /\ thread = NULL
  /\ call[c].pc = "idle"
  /\ call' = [call EXCEPT ![c] =
       [idleCall EXCEPT
          !.code = code, !.timeoutArg = timeoutArg, !.timeout = effectiveTimeout(timeoutArg),
          !.cwd = cwd,
          !.pc = IF code = NoCode THEN "rejected"
                 ELSE IF quickJsModule = NULL THEN "loading" ELSE "awaitModule",
          !.error = IF code = NoCode THEN "TypeError" ELSE "none"]]
  /\ hostFs' = noHostFs
  /\ globalRead' = noGlobalRead
  /\ UNCHANGED <<thread, quickJsModule, notSandbox>>

\* quickjs-sandbox:57-60: getQuickJS() resolves; the module is cached and returned.
ModuleLoaded(c) ==
  /\ thread = NULL
  /\ call[c].pc = "loading"
  /\ quickJsModule' = "loaded"
  /\ call' = [call EXCEPT ![c].pc = "awaitModule"]
  /\ hostFs' = noHostFs
  /\ globalRead' = noGlobalRead
  /\ UNCHANGED <<thread, notSandbox>>

\* quickjs-sandbox:57, 291-299: getQuickJS() rejects; the catch answers with a
\* failure, no context was created.
ModuleLoadFails(c) ==
  /\ thread = NULL
  /\ call[c].pc = "loading"
  /\ call' = [call EXCEPT ![c].pc = "awaitResult", ![c].success = FALSE,
                          ![c].error = "host exception"]
  /\ hostFs' = noHostFs
  /\ globalRead' = noGlobalRead
  /\ UNCHANGED <<thread, quickJsModule, notSandbox>>

\* quickjs-sandbox:78-252, 291-299: the context is created and a host call of the
\* setup (newObject, newFunction, setProp, newString, ...) throws; the catch
\* answers with a failure and does not touch the context.
SetupThrows(c) ==
  /\ thread = NULL
  /\ call[c].pc = "awaitModule"
  /\ call' = [call EXCEPT ![c].pc = "awaitResult", ![c].vm = "live",
                          ![c].success = FALSE, ![c].error = "host exception"]
  /\ hostFs' = noHostFs
  /\ globalRead' = noGlobalRead
  /\ UNCHANGED <<thread, quickJsModule, notSandbox>>

\* quickjs-sandbox:77-261: the call resumes with the module, creates its context,
\* installs console, fs, path and __dirname, sets the interrupt handler and enters
\* vm.evalCode.
\* Variant in which evalCode would give the thread up while the script runs.
StartEval_Yielding(c) ==
  /\ thread = NULL
  /\ call[c].pc = "awaitModule"
  /\ call' = [call EXCEPT ![c].pc = "eval", ![c].vm = "live"]
  /\ hostFs' = noHostFs
  /\ globalRead' = noGlobalRead
  /\ UNCHANGED <<thread, quickJsModule, notSandbox>>

StartEval(c) ==
  /\ thread = NULL
  /\ call[c].pc = "awaitModule"
  /\ thread' = c
  /\ call' = [call EXCEPT ![c].pc = "eval", ![c].vm = "live"]
  /\ hostFs' = noHostFs
  /\ globalRead' = noGlobalRead
  /\ UNCHANGED <<quickJsModule, notSandbox>>

\* The holder of the thread, when the engine runs a script of call c.
Running(c) == call[c].pc = "eval" /\ thread \in {c, NULL}

\* quickjs-sandbox:263-273, 291-299 and execute-js-tool:89-120: evalCode returned an
\* error; the context is disposed and the tool answers with a failure.
evalFailed(r, err) ==
  [r EXCEPT !.pc = "awaitResult", !.vm = "disposed", !.success = FALSE, !.error = err,
            !.hostCalls = 0, !.spin = FALSE]

\* quickjs-sandbox:134-201: the script calls fs.<op>(filePath).  A rejected path
\* or a failing host call throws inside the sandbox; the script catches it or
\* ends with it.
ScriptFsCall(c, op, filePath, hostOk, caught) ==
  /\ Running(c)
  /\ call[c].hostCalls < MaxScriptCalls
  /\ LET fullPath == fullPathOf[call[c].cwd, filePath]
         denied == fsChecksPath(op) /\ ~pathSafeOf[call[c].cwd, filePath]
         threw == denied \/ (~hostOk /\ op # "existsSync")
         r == [call[c] EXCEPT !.hostCalls = @ + 1]
     IN /\ hostFs' = [op |-> op, cwd |-> call[c].cwd, path |-> fullPath,
                      checked |-> fsChecksPath(op), denied |-> denied, touched |-> ~denied]
        \* an argument that plays no part takes one value, so each outcome is one step
        /\ denied => hostOk
        /\ ~threw => caught
        /\ IF threw /\ ~caught
           THEN /\ call' = [call EXCEPT ![c] =
                     evalFailed(r, "script error")]
                /\ thread' = NULL
           ELSE /\ call' = [call EXCEPT ![c] = r]
                /\ UNCHANGED thread
  /\ globalRead' = noGlobalRead
  /\ UNCHANGED <<quickJsModule, notSandbox>>

\* The script reads a global name: it finds what the context holds, and a name
\* the context does not hold throws a ReferenceError inside the sandbox, which
\* the script catches or ends with.
ScriptReadsGlobal(c, name, caught) ==
  /\ Running(c)
  /\ LET found == name \in contextGlobals
     IN /\ globalRead' = [name |-> name, found |-> found]
        /\ found => caught
        /\ IF ~found /\ ~caught
           THEN /\ call' = [call EXCEPT ![c] = evalFailed(call[c], "script error")]
                /\ thread' = NULL
           ELSE UNCHANGED <<call, thread>>
  /\ hostFs' = noHostFs
  /\ UNCHANGED <<quickJsModule, notSandbox>>

\* quickjs-sandbox:276-289 and 263-273: the script comes to its end: evalCode
\* returns its value or its error, the context is disposed.
ScriptEnds(c) ==
  /\ Running(c)
  /\ call[c].code \in {"returns", "throws"}
  /\ call' = [call EXCEPT ![c] =
       IF call[c].code = "returns"
       THEN [call[c] EXCEPT !.pc = "awaitResult", !.vm = "disposed", !.success = TRUE,
                            !.hostCalls = 0]
       ELSE evalFailed(call[c], "script error")]
  /\ thread' = NULL
  /\ hostFs' = noHostFs
  /\ globalRead' = noGlobalRead
  /\ UNCHANGED <<quickJsModule, notSandbox>>

\* quickjs-sandbox:264, 276, 282, 291-299: the script has come to its end and the
\* conversion of its result throws on the host side: vm.dump before the context
\* is disposed, or JSON.stringify after it.  The catch answers with a failure.
ResultConversionThrows(c, stage) ==
  /\ Running(c)
  /\ call[c].code \in {"returns", "throws"}
  /\ stage = "stringify" => call[c].code = "returns"
  /\ call' = [call EXCEPT ![c].pc = "awaitResult",
                          ![c].vm = IF stage = "dump" THEN "live" ELSE "disposed",
                          ![c].success = FALSE, ![c].error = "host exception",
                          ![c].hostCalls = 0]
  /\ thread' = NULL
  /\ hostFs' = noHostFs
  /\ globalRead' = noGlobalRead
  /\ UNCHANGED <<quickJsModule, notSandbox>>

\* quickjs-sandbox:250-261: a script that never terminates goes round its loop; the
\* engine polls the interrupt handler and stops the script only if it says so.
ScriptLoops(c) ==
  /\ Running(c)
  /\ call[c].code = "loops"
  /\ IF interruptHandler(c)
     THEN /\ call' = [call EXCEPT ![c] = evalFailed(call[c], "interrupted (timeout)")]
          /\ thread' = NULL
     ELSE /\ call' = [call EXCEPT ![c].spin = ~@]
          /\ UNCHANGED thread
  /\ hostFs' = noHostFs
  /\ globalRead' = noGlobalRead
  /\ UNCHANGED <<quickJsModule, notSandbox>>

\* execute-js-tool:77-121: executeJSTool resumes with the sandbox's result and
\* formats the tool result.
ToolReturns(c) ==
  /\ thread = NULL
  /\ call[c].pc = "awaitResult"
  /\ call' = [call EXCEPT ![c].pc = "returned"]
  /\ hostFs' = noHostFs
  /\ globalRead' = noGlobalRead
  /\ UNCHANGED <<thread, quickJsModule, notSandbox>>

\* The dispatcher takes the outcome (a result, or the rejection) of the call.
DispatcherTakes(c) ==
  /\ thread = NULL
  /\ call[c].pc \in {"returned", "rejected"}
  /\ call' = [call EXCEPT ![c] = idleCall]
  /\ hostFs' = noHostFs
  /\ globalRead' = noGlobalRead
  /\ UNCHANGED <<thread, quickJsModule, notSandbox>>

CallStep(c) ==
  \/ \E code \in CodeKinds \cup {NoCode}, t \in TimeoutArgs, cwd \in ContextCwds :
       InvokeExecuteJS(c, code, t, cwd)
  \/ ModuleLoaded(c)
  \/ ModuleLoadFails(c)
  \/ SetupThrows(c)
  \/ StartEval(c)
  \/ \E stage \in {"dump", "stringify"} : ResultConversionThrows(c, stage)
  \/ \E name \in ScriptGlobalNames, caught \in BOOLEAN : ScriptReadsGlobal(c, name, caught)
  \/ \E op \in FsOps, p \in ScriptPaths, hostOk \in BOOLEAN, caught \in BOOLEAN :
       ScriptFsCall(c, op, p, hostOk, caught)
  \/ ScriptEnds(c)
  \/ ScriptLoops(c)
  \/ ToolReturns(c)
  \/ DispatcherTakes(c)

SandboxNext == \E c \in Calls : CallStep(c)

-----------------------------------------------------------------------------
(* render_page over the shared BrowserView (render-page-tool.ts:50-228) *)

RenderCalls == {"r1", "r2"}

\* A URL: its scheme and the page it names.
Urls == [scheme : {"http", "https", "ftp"}, page : {"a", "b"}]
\* args without a url
NoUrl == [scheme |-> NULL, page |-> NULL]

\* render-page-tool.ts:80  url.startsWith('http://') || url.startsWith('https://')
validUrl(url) == url.scheme = "http" \/ url.scheme = "https"

idleViewCall == [pc |-> "idle", url |-> NoUrl, extracted |-> NoUrl, success |-> FALSE]

ViewInit ==
  /\ renderView = [created |-> FALSE, attached |-> FALSE, url |-> NoUrl]
  /\ vcall = [c \in RenderCalls |-> idleViewCall]

\* A call that has loaded its URL into the view and has not yet extracted from it.
InFlightOnView(c) == vcall[c].pc \in {"loading", "jsWait", "extracting"}

\* render-page-tool.ts:73-130: validation, getRenderView, the main window,
\* addBrowserView, loadURL. Nothing makes the call wait for another call.
InvokeRenderPage(c, url, mainWindow) ==
  /\ vcall[c].pc = "idle"
  /\ IF url = NoUrl
     THEN /\ vcall' = [vcall EXCEPT ![c] = [idleViewCall EXCEPT !.pc = "rejected"]]
          /\ UNCHANGED renderView
     ELSE IF ~validUrl(url)
     THEN /\ vcall' = [vcall EXCEPT ![c] = [idleViewCall EXCEPT !.pc = "returned", !.url = url]]
          /\ UNCHANGED renderView
     ELSE IF ~mainWindow
     THEN /\ vcall' = [vcall EXCEPT ![c] = [idleViewCall EXCEPT !.pc = "returned", !.url = url]]
          /\ renderView' = [renderView EXCEPT !.created = TRUE]
     ELSE /\ renderView' = [created |-> TRUE, attached |-> TRUE, url |-> url]
          /\ vcall' = [vcall EXCEPT ![c] = [idleViewCall EXCEPT !.pc = "loading", !.url = url]]
  /\ UNCHANGED notView

\* render-page-tool.ts:119-122, 131-136: did-finish-load; the call goes on to wait
\* wait_ms for the page's scripts.
ViewLoadFinished(c) ==
  /\ vcall[c].pc = "loading"
  /\ vcall' = [vcall EXCEPT ![c].pc = "jsWait"]
  /\ UNCHANGED <<renderView, notView>>

\* render-page-tool.ts:115-117, 124-127, 220-227: the load fails or times out; the
\* catch answers with a failure (the view stays attached).
ViewLoadFailed(c) ==
  /\ vcall[c].pc = "loading"
  /\ vcall' = [vcall EXCEPT ![c].pc = "returned"]
  /\ UNCHANGED <<renderView, notView>>

\* render-page-tool.ts:136-172: the wait is over; the extraction script runs in
\* whatever page the view shows now.
ViewExtract(c) ==
  /\ vcall[c].pc = "jsWait"
  /\ vcall' = [vcall EXCEPT ![c].pc = "extracting", ![c].extracted = renderView.url]
  /\ UNCHANGED <<renderView, notView>>

\* render-page-tool.ts:172-218: the extraction result arrives; the view is removed
\* from the window and the call answers.
ViewExtractDone(c, ok) ==
  /\ vcall[c].pc = "extracting"
  /\ renderView' = [renderView EXCEPT !.attached = FALSE]
  /\ vcall' = [vcall EXCEPT ![c].pc = "returned", ![c].success = ok]
  /\ UNCHANGED notView

\* render-page-tool.ts:172, 220-227: executeJavaScript rejects; the catch answers
\* with a failure (the view stays attached).
ViewExtractThrows(c) ==
  /\ vcall[c].pc = "extracting"
  /\ vcall' = [vcall EXCEPT ![c].pc = "returned"]
  /\ UNCHANGED <<renderView, notView>>

\* The dispatcher takes the tool result.
ViewResultTaken(c) ==
  /\ vcall[c].pc \in {"returned", "rejected"}
  /\ vcall' = [vcall EXCEPT ![c] = idleViewCall]
  /\ UNCHANGED <<renderView, notView>>

ViewNext ==
  \E c \in RenderCalls :
    \/ \E url \in Urls \cup {NoUrl}, mainWindow \in BOOLEAN :
         InvokeRenderPage(c, url, mainWindow)
    \/ ViewLoadFinished(c)
    \/ ViewLoadFailed(c)
    \/ ViewExtract(c)
    \/ \E ok \in BOOLEAN : ViewExtractDone(c, ok)
    \/ ViewExtractThrows(c)
    \/ ViewResultTaken(c)

-----------------------------------------------------------------------------
(* render_page over a hidden BrowserWindow per attempt, with retries *)

\* Each call has windows of its own; calls share nothing.
WindowCalls == {"w1"}

MAX_RETRIES == 3
RETRY_DELAY_MS == 1000
LOAD_TIMEOUT_MS == 30000

\* Time passes in steps of TickMs; a timer's elapsed time saturates at its duration,
\* and its callback runs at or after that.
TickMs == RETRY_DELAY_MS \div 2

LoadTimeoutError == "Page load timeout (30s)"
LoadErrors == {"ERR_CONNECTION_RESET (-101)", "ERR_SSL_PROTOCOL_ERROR (-107)"}

\* Variant that compares the whole message with 'timeout'.
mentionsTimeout_WholeMessage(err) == err = "timeout"

\* error.message.includes('timeout')
mentionsTimeout(err) == err = LoadTimeoutError

\* render_page retry loop: "if (error.message.includes('timeout') || attempt >= MAX_RETRIES) break"
\* Variant that allows one attempt more.
retryAfterFailure_OneMore(err, attempt) ==
  ~(mentionsTimeout(err) \/ attempt > MAX_RETRIES)

retryAfterFailure(err, attempt) ==
  ~(mentionsTimeout(err) \/ attempt >= MAX_RETRIES)

idleWindowCall ==
  [pc |-> "idle", url |-> NoUrl, attempt |-> 0, elapsed |-> 0, window |-> "none",
   opened |-> 0, closed |-> 0, lastError |-> "none", waited |-> 0, succeededAt |-> 0,
   success |-> FALSE]

WindowInit == wcall = [c \in WindowCalls |-> idleWindowCall]

\* A new hidden window is created and the URL loaded into it: one attempt.
startAttempt(r) ==
  [r EXCEPT !.pc = "loading", !.attempt = @ + 1, !.window = "open", !.opened = @ + 1,
            !.waited = r.elapsed, !.elapsed = 0]

\* executeRenderPageTool: validation, then the first attempt of the retry loop.
\* With no url in args, url.startsWith throws before any try: the promise of the
\* call is rejected.
InvokeRenderPageW(c, url) ==
  /\ wcall[c].pc = "idle"
  /\ wcall' = [wcall EXCEPT ![c] =
       IF url = NoUrl
       THEN [idleWindowCall EXCEPT !.pc = "rejected"]
       ELSE IF ~validUrl(url)
       THEN [idleWindowCall EXCEPT !.pc = "returned", !.url = url]
       ELSE startAttempt([idleWindowCall EXCEPT !.url = url])]
  /\ UNCHANGED notWindow

timerDuration(r) ==
  IF r.pc = "loading" THEN LOAD_TIMEOUT_MS
  ELSE IF r.pc = "retryDelay" THEN RETRY_DELAY_MS
  ELSE 0

\* Time passes for every running timer.
Tick ==
  /\ \E c \in WindowCalls : wcall[c].elapsed < timerDuration(wcall[c])
  /\ wcall' = [c \in WindowCalls |->
       [wcall[c] EXCEPT !.elapsed = Min(@ + TickMs, timerDuration(wcall[c]))]]
  /\ UNCHANGED notWindow

\* did-finish-load: the attempt succeeded, the loop is left.
WindowLoadFinished(c) ==
  /\ wcall[c].pc = "loading"
  /\ wcall' = [wcall EXCEPT ![c].pc = "jsWait", ![c].lastError = "none",
                            ![c].succeededAt = wcall[c].attempt, ![c].elapsed = 0]
  /\ UNCHANGED notWindow

\* The catch of the retry loop: the failed window is closed; the loop is left on a
\* timeout or after the last attempt, else the call waits RETRY_DELAY_MS.
attemptFailed(r, err) ==
  LET closedWin == [r EXCEPT !.lastError = err, !.window = "none", !.closed = @ + 1,
                             !.elapsed = 0]
  IN IF retryAfterFailure(err, r.attempt)
     THEN [closedWin EXCEPT !.pc = "retryDelay"]
     ELSE [closedWin EXCEPT !.pc = "returned", !.success = FALSE]

\* did-fail-load
WindowLoadFailed(c, err) ==
  /\ wcall[c].pc = "loading"
  /\ wcall' = [wcall EXCEPT ![c] = attemptFailed(wcall[c], err)]
  /\ UNCHANGED notWindow

\* The 30 s timer of the load promise fires.
WindowLoadTimeout(c) ==
  /\ wcall[c].pc = "loading"
  /\ wcall[c].elapsed >= LOAD_TIMEOUT_MS
  /\ wcall' = [wcall EXCEPT ![c] = attemptFailed(wcall[c], LoadTimeoutError)]
  /\ UNCHANGED notWindow

\* The retry delay is over: the next attempt starts.
RetryDelayElapsed(c) ==
  /\ wcall[c].pc = "retryDelay"
  /\ wcall[c].elapsed >= RETRY_DELAY_MS
  /\ wcall' = [wcall EXCEPT ![c] = startAttempt(wcall[c])]
  /\ UNCHANGED notWindow

\* The extraction phase: wait, extract, close the window, answer (the catch closes
\* the window as well).
WindowExtract(c, ok) ==
  /\ wcall[c].pc = "jsWait"
  /\ wcall' = [wcall EXCEPT ![c].pc = "returned", ![c].success = ok,
                            ![c].window = "none", ![c].closed = @ + 1]
  /\ UNCHANGED notWindow

\* The dispatcher takes the tool result.
WindowResultTaken(c) ==
  /\ wcall[c].pc \in {"returned", "rejected"}
  /\ wcall' = [wcall EXCEPT ![c] = idleWindowCall]
  /\ UNCHANGED notWindow

WindowNext ==
  \/ Tick
  \/ \E c \in WindowCalls :
       \/ \E url \in Urls \cup {NoUrl} : InvokeRenderPageW(c, url)
       \/ WindowLoadFinished(c)
       \/ \E err \in LoadErrors : WindowLoadFailed(c, err)
       \/ WindowLoadTimeout(c)
       \/ RetryDelayElapsed(c)
       \/ \E ok \in BOOLEAN : WindowExtract(c, ok)
       \/ WindowResultTaken(c)

-----------------------------------------------------------------------------
(* Scheduler tab: the schedule descriptor grammar and task creation *)

isSpace(ch) == ch \in {" ", "\t"}
Digits == <<"0", "1", "2", "3", "4", "5", "6", "7", "8", "9">>
isDigit(ch) == \E i \in DOMAIN Digits : Digits[i] = ch
DigitVal(ch) == (CHOOSE i \in DOMAIN Digits : Digits[i] = ch) - 1

RECURSIVE trimStart(_)
trimStart(s) == IF s # <<>> /\ isSpace(Head(s)) THEN trimStart(Tail(s)) ELSE s

RECURSIVE trimEnd(_)
trimEnd(s) ==
  IF s # <<>> /\ isSpace(s[Len(s)]) THEN trimEnd(SubSeq(s, 1, Len(s) - 1)) ELSE s

trim(s) == trimEnd(trimStart(s))

\* parseInt(digits, 10)
RECURSIVE parseInt(_)
parseInt(ds) ==
  IF ds = <<>> THEN 0 ELSE 10 * parseInt(SubSeq(ds, 1, Len(ds) - 1)) + DigitVal(ds[Len(ds)])

\* The position after the longest run of whitespace that starts at position i.
RECURSIVE afterSpaces(_, _)
afterSpaces(s, i) == IF i <= Len(s) /\ isSpace(s[i]) THEN afterSpaces(s, i + 1) ELSE i

\* The position after the longest run of at most max digits that starts at i.
RECURSIVE afterDigits(_, _, _)
afterDigits(s, i, max) ==
  IF max > 0 /\ i <= Len(s) /\ isDigit(s[i]) THEN afterDigits(s, i + 1, max - 1) ELSE i

\* Whether word occurs in s at position i.
wordAt(s, i, word) == i + Len(word) - 1 <= Len(s) /\ SubSeq(s, i, i + Len(word) - 1) = word

NoMatch == [ok |-> FALSE, n1 |-> 0, n2 |-> 0, unit |-> <<>>]

\* min(?:ute)?s?|hrs?|hours?|days?
InUnits == {<<"m", "i", "n">>, <<"m", "i", "n", "s">>, <<"m", "i", "n", "u", "t", "e">>, <<"m", "i", "n", "u", "t", "e", "s">>, <<"h", "r">>, <<"h", "r", "s">>, <<"h", "o", "u", "r">>, <<"h", "o", "u", "r", "s">>, <<"d", "a", "y">>, <<"d", "a", "y", "s">>}
\* min(?:ute)?s?|hrs?|hours?
EveryUnits == {<<"m", "i", "n">>, <<"m", "i", "n", "s">>, <<"m", "i", "n", "u", "t", "e">>, <<"m", "i", "n", "u", "t", "e", "s">>, <<"h", "r">>, <<"h", "r", "s">>, <<"h", "o", "u", "r">>, <<"h", "o", "u", "r", "s">>}

\* From position i:  \s+(\d+)\s*(units)$
matchAmount(s, i, units) ==
  LET j == afterSpaces(s, i)
      k == afterDigits(s, j, Len(s))
      u == afterSpaces(s, k)
      unit == SubSeq(s, u, Len(s))
  IN IF j > i /\ k > j /\ unit \in units
     THEN [ok |-> TRUE, n1 |-> parseInt(SubSeq(s, j, k - 1)), n2 |-> 0, unit |-> unit]
     ELSE NoMatch

\* From position i:  \s+(\d{1,2}):(\d{2})$
matchTime(s, i) ==
  LET j == afterSpaces(s, i)
      k == afterDigits(s, j, 2)
  IN IF /\ j > i
        /\ k > j
        /\ wordAt(s, k, <<":">>)
        /\ Len(s) = k + 2
        /\ isDigit(s[k + 1])
        /\ isDigit(s[k + 2])
     THEN [ok |-> TRUE, n1 |-> parseInt(SubSeq(s, j, k - 1)),
           n2 |-> parseInt(SubSeq(s, k + 1, k + 2)), unit |-> <<>>]
     ELSE NoMatch

word_in == <<"i", "n">>
word_at == <<"a", "t">>
word_tomorrow == <<"t", "o", "m", "o", "r", "r", "o", "w">>
word_every == <<"e", "v", "e", "r", "y">>
word_day == <<"d", "a", "y">>
word_daily == <<"d", "a", "i", "l", "y">>

\* /^in\s+(\d+)\s*(min(?:ute)?s?|hrs?|hours?|days?)$/
inMatch(s) ==
  IF wordAt(s, 1, word_in) THEN matchAmount(s, Len(word_in) + 1, InUnits) ELSE NoMatch

\* /^at\s+(\d{1,2}):(\d{2})$/
atMatch(s) ==
  IF wordAt(s, 1, word_at) THEN matchTime(s, Len(word_at) + 1) ELSE NoMatch

\* From position i:  \s+at\s+(\d{1,2}):(\d{2})$
matchAtTime(s, i) ==
  LET j == afterSpaces(s, i)
  IN IF j > i /\ wordAt(s, j, word_at) THEN matchTime(s, j + Len(word_at)) ELSE NoMatch

\* /^tomorrow\s+at\s+(\d{1,2}):(\d{2})$/
tomorrowMatch(s) ==
  IF wordAt(s, 1, word_tomorrow) THEN matchAtTime(s, Len(word_tomorrow) + 1) ELSE NoMatch

\* /^(?:every\s+day|daily)\s+at\s+(\d{1,2}):(\d{2})$/
dailyMatch(s) ==
  LET j == afterSpaces(s, Len(word_every) + 1)
  IN IF wordAt(s, 1, word_every) /\ j > Len(word_every) + 1 /\ wordAt(s, j, word_day)
     THEN matchAtTime(s, j + Len(word_day))
     ELSE IF wordAt(s, 1, word_daily) THEN matchAtTime(s, Len(word_daily) + 1)
     ELSE NoMatch

\* /^every\s+(\d+)\s*(min(?:ute)?s?|hrs?|hours?)$/
everyMatch(s) ==
  IF wordAt(s, 1, word_every) THEN matchAmount(s, Len(word_every) + 1, EveryUnits)
  ELSE NoMatch

\* Time is in milliseconds since the local midnight that starts day 0 of the model;
\* every day has 24 hours.
MsPerMinute == 60 * 1000
MsPerHour == 60 * MsPerMinute
MsPerDay == 24 * MsPerHour

\* target.setHours(hours, minutes, 0, 0) on the day of t
setHours(t, hours, minutes) == (t - (t % MsPerDay)) + hours * MsPerHour + minutes * MsPerMinute

\* The next occurrence of hours:minutes: today, or tomorrow when that has passed.
nextTimeOfDay(now, hours, minutes) ==
  IF setHours(now, hours, minutes) <= now
  THEN setHours(now, hours, minutes) + MsPerDay
  ELSE setHours(now, hours, minutes)

\* calculateNextRun's "return null"
NoNextRun == -1

\* Variant that counts an hour as a minute in the "every" form.
calculateNextRun_EveryHourShort(scheduleStr, now) ==
  LET schedule == trim(toLowerCase(scheduleStr))
      inM == inMatch(schedule)
      atM == atMatch(schedule)
      tmM == tomorrowMatch(schedule)
      dyM == dailyMatch(schedule)
      evM == everyMatch(schedule)
  IN IF inM.ok /\ startsWith(inM.unit, <<"m", "i", "n">>) THEN now + inM.n1 * 60 * 1000
     ELSE IF inM.ok /\ startsWith(inM.unit, <<"h">>) THEN now + inM.n1 * 60 * 60 * 1000
     ELSE IF inM.ok /\ startsWith(inM.unit, <<"d">>) THEN now + inM.n1 * 24 * 60 * 60 * 1000
     ELSE IF atM.ok THEN nextTimeOfDay(now, atM.n1, atM.n2)
     ELSE IF tmM.ok THEN setHours(now + MsPerDay, tmM.n1, tmM.n2)
     ELSE IF dyM.ok THEN nextTimeOfDay(now, dyM.n1, dyM.n2)
     ELSE IF evM.ok /\ startsWith(evM.unit, <<"m", "i", "n">>) THEN now + evM.n1 * 60 * 1000
     ELSE IF evM.ok /\ startsWith(evM.unit, <<"h">>) THEN now + evM.n1 * 60 * 1000
     ELSE NoNextRun

\* calculateNextRun(scheduleStr), read at clock time now.
calculateNextRun(scheduleStr, now) ==
  LET schedule == trim(toLowerCase(scheduleStr))
      inM == inMatch(schedule)
      atM == atMatch(schedule)
      tmM == tomorrowMatch(schedule)
      dyM == dailyMatch(schedule)
      evM == everyMatch(schedule)
  IN IF inM.ok /\ startsWith(inM.unit, <<"m", "i", "n">>) THEN now + inM.n1 * 60 * 1000
     ELSE IF inM.ok /\ startsWith(inM.unit, <<"h">>) THEN now + inM.n1 * 60 * 60 * 1000
     ELSE IF inM.ok /\ startsWith(inM.unit, <<"d">>) THEN now + inM.n1 * 24 * 60 * 60 * 1000
     ELSE IF atM.ok THEN nextTimeOfDay(now, atM.n1, atM.n2)
     ELSE IF tmM.ok THEN setHours(now + MsPerDay, tmM.n1, tmM.n2)
     ELSE IF dyM.ok THEN nextTimeOfDay(now, dyM.n1, dyM.n2)
     ELSE IF evM.ok /\ startsWith(evM.unit, <<"m", "i", "n">>) THEN now + evM.n1 * 60 * 1000
     ELSE IF evM.ok /\ startsWith(evM.unit, <<"h">>) THEN now + evM.n1 * 60 * 60 * 1000
     ELSE NoNextRun

\* Variant that does not treat null as missing.
nextRunMissing_OnlyZero(nextRun) == nextRun = 0

\* handleCreateTask: "if (!nextRun)"
nextRunMissing(nextRun) == nextRun = NoNextRun \/ nextRun = 0

\* handleCreateTask: schedule.startsWith("every") || schedule.startsWith("daily")
isRecurring(schedule) == startsWith(schedule, word_every) \/ startsWith(schedule, word_daily)

\* ---- the inputs: what the user types into the form

Leads == {<<>>, <<" ">>}
Heads == {<<"i", "n">>, <<"I", "N">>, <<"a", "t">>, <<"t", "o", "m", "o", "r", "r", "o", "w", " ", "a", "t">>, <<"e", "v", "e", "r", "y">>, <<"E", "v", "e", "r", "y">>, <<"e", "v", "e", "r", "y", " ", "d", "a", "y", " ", "a", "t">>, <<"e", "v", "e", "r", "y", "\t", "d", "a", "y", " ", "a", "t">>, <<"d", "a", "i", "l", "y", " ", "a", "t">>, <<"D", "a", "i", "l", "y", " ", "a", "t">>, <<"o", "n">>, <<"e", "v", "e", "r", "y", "d", "a", "y", " ", "a", "t">>}
Gaps == {<<>>, <<" ">>, <<"\t", " ">>}
Amounts == {<<>>, <<"0">>, <<"5">>, <<"1", "5">>}
UnitWords == InUnits \cup {<<>>, <<"m", "i", "n", "u", "t", "e", "s", "s">>, <<"h">>, <<"w", "e", "e", "k", "s">>}
Times == {<<"9", ":", "0", "5">>, <<"2", "3", ":", "5", "9">>, <<"7", ":", "5">>, <<"1", "2", "3", ":", "0", "0">>, <<"9", ":", "0", "5", "5">>, <<":", "3", "0">>, <<"9", "9", ":", "9", "9">>}
Trails == {<<>>, <<" ">>, <<"x">>}

Bodies ==
  {n \o g \o u : n \in Amounts, g \in {<<>>, <<" ">>}, u \in UnitWords} \cup Times

Descriptors ==
  {l \o h \o g \o b \o t : l \in Leads, h \in Heads, g \in Gaps, b \in Bodies, t \in Trails}

Titles == {<<" ">>, <<"t">>, <<" ", "t", " ">>}

\* The clock readings of "new Date()": a morning and a late evening of day 1.
Nows == {MsPerDay + 9 * MsPerHour + 30 * MsPerMinute + 7,
         MsPerDay + 23 * MsPerHour + 59 * MsPerMinute + 59 * 1000}

NoEvent == [type |-> NULL]
NoOutcome ==
  [clicked |-> FALSE, schedule |-> <<>>, now |-> 0, alert |-> NULL, event |-> NoEvent]
BlankForm == [showForm |-> FALSE, title |-> <<>>, schedule |-> <<>>, isSubmitting |-> FALSE]

SchedulerInit ==
  /\ form = BlankForm
  /\ created = NoOutcome

\* The "+ New Task" / "Cancel" buttons: setShowForm
ToggleForm ==
  /\ form' = [form EXCEPT !.showForm = ~@]
  /\ created' = NoOutcome
  /\ UNCHANGED notScheduler

\* The user fills the empty form in: setTitle, setSchedule
FillForm ==
  /\ form.showForm
  /\ form.title = <<>> /\ form.schedule = <<>>
  /\ \E title \in Titles, schedule \in Descriptors :
       form' = [form EXCEPT !.title = title, !.schedule = schedule]
  /\ created' = NoOutcome
  /\ UNCHANGED notScheduler

\* The user empties the fields again: setTitle(""), setSchedule("")
ClearForm ==
  /\ form.showForm
  /\ form.title # <<>> \/ form.schedule # <<>>
  /\ form' = [form EXCEPT !.title = <<>>, !.schedule = <<>>]
  /\ created' = NoOutcome
  /\ UNCHANGED notScheduler

\* The "Create Task" button is disabled while a field is blank or a submit runs.
createDisabled == trim(form.title) = <<>> \/ trim(form.schedule) = <<>> \/ form.isSubmitting

\* handleCreateTask, run to its end (it never awaits); now is the clock it reads.
handleCreateTask(now) ==
  LET nextRun == calculateNextRun(form.schedule, now)
      outcome == [NoOutcome EXCEPT !.clicked = TRUE, !.schedule = form.schedule,
                                   !.now = now]
  IN IF trim(form.title) = <<>> \/ trim(form.schedule) = <<>>
     THEN form' = form /\ created' = outcome
     ELSE IF nextRunMissing(nextRun)
     THEN /\ form' = form
          /\ created' = [outcome EXCEPT !.alert = "Invalid schedule format"]
     ELSE /\ form' = BlankForm
          /\ created' = [outcome EXCEPT !.event =
               [type |-> "scheduler.task.create", title |-> trim(form.title),
                schedule |-> form.schedule, nextRun |-> nextRun,
                isRecurring |-> isRecurring(form.schedule), enabled |-> TRUE]]

ClickCreateTask(now) ==
  /\ form.showForm
  /\ ~createDisabled
  /\ ~created.clicked
  /\ handleCreateTask(now)
  /\ UNCHANGED notScheduler

SchedulerNext ==
  \/ ToggleForm
  \/ FillForm
  \/ ClearForm
  \/ \E now \in Nows : ClickCreateTask(now)

-----------------------------------------------------------------------------
(* Prompt input and the agent loop behind it *)

\* One session is followed from its start; its loop is the engine's.
LoopSession == "s1"
MaxInFlight == 2
MaxPrompts == 2
MaxBatches == 2
\* The files the user can attach.
Attachments == {"a.png"}
\* A tool call is its name and argument payload: two calls with the same key
\* are identical.
ToolKeys == {"k1", "k2"}
Batches == {<<>>, <<"k1", "k1">>, <<"k1", "k2">>}
Prompts == {<<>>, <<" ">>, <<" ", "g", "o">>}
StillRunningError == "Session is still running. Please wait for it to finish."

noSend == [handler |-> NULL, emitted |-> NULL, status |-> NULL,
           prompt |-> <<>>, attachments |-> {}]
noExecutions == [k \in ToolKeys |-> 0]
idleEngine ==
  [status |-> "none", phase |-> "idle", loops |-> 0, batch |-> <<>>,
   executions |-> noExecutions, done |-> <<>>, orphans |-> 0, history |-> <<>>,
   prompts |-> 0, batches |-> 0]

PromptInit ==
  /\ store = [activeSessionId |-> NULL, status |-> UNDEF, prompt |-> <<>>,
              pendingAttachments |-> {}, globalError |-> NULL, pendingStart |-> FALSE]
  /\ intents = <<>>
  /\ engine = idleEngine
  /\ sent = noSend

\* At launch the session of an earlier run, if there is one, is read from the
\* session store and listed by the renderer.
LoadStoredSession ==
  /\ engine.status = "none"
  /\ intents = <<>>
  /\ ~store.pendingStart
  /\ engine' = [engine EXCEPT !.status = "idle"]
  /\ store' = [store EXCEPT !.status = "idle"]
  /\ sent' = noSend
  /\ UNCHANGED <<intents, notPrompt>>

\* activeSession?.status
activeStatus == IF store.activeSessionId # NULL THEN store.status ELSE UNDEF
isRunning == activeStatus = "running"

sendEvent(type) == intents' = Append(intents, [type |-> type, sessionId |-> store.activeSessionId])

\* Variant of handleSend that sends session.continue whatever the status is.
handleSend_NoStatusCheck ==
  LET trimmedPrompt == trim(store.prompt)
      hasAttachments == store.pendingAttachments # {}
      did(emitted) == [handler |-> "handleSend", emitted |-> emitted, status |-> activeStatus,
                       prompt |-> store.prompt, attachments |-> store.pendingAttachments]
  IN /\ IF store.activeSessionId # NULL /\ trimmedPrompt = <<>> /\ ~hasAttachments
        THEN /\ sent' = did(NULL)
             /\ UNCHANGED <<store, intents>>
        ELSE IF store.activeSessionId = NULL
        THEN /\ sendEvent("session.start")
             /\ store' = [store EXCEPT !.pendingStart = TRUE, !.prompt = <<>>,
                                       !.pendingAttachments = {}]
             /\ sent' = did("session.start")
        ELSE /\ sendEvent("session.continue")
             /\ store' = [store EXCEPT !.prompt = <<>>, !.pendingAttachments = {}]
             /\ sent' = did("session.continue")
     /\ UNCHANGED <<engine, notPrompt>>

handleSend ==
  LET trimmedPrompt == trim(store.prompt)
      hasAttachments == store.pendingAttachments # {}
      did(emitted) == [handler |-> "handleSend", emitted |-> emitted, status |-> activeStatus,
                       prompt |-> store.prompt, attachments |-> store.pendingAttachments]
  IN /\ IF store.activeSessionId # NULL /\ trimmedPrompt = <<>> /\ ~hasAttachments
        THEN /\ sent' = did(NULL)
             /\ UNCHANGED <<store, intents>>
        ELSE IF store.activeSessionId = NULL
        THEN /\ sendEvent("session.start")
             /\ store' = [store EXCEPT !.pendingStart = TRUE, !.prompt = <<>>,
                                       !.pendingAttachments = {}]
             /\ sent' = did("session.start")
        ELSE IF activeStatus = "running"
        THEN /\ store' = [store EXCEPT !.globalError = StillRunningError]
             /\ sent' = did(NULL)
             /\ UNCHANGED intents
        ELSE /\ sendEvent("session.continue")
             /\ store' = [store EXCEPT !.prompt = <<>>, !.pendingAttachments = {}]
             /\ sent' = did("session.continue")
     /\ UNCHANGED <<engine, notPrompt>>

handleStop ==
  LET did(emitted) == [handler |-> "handleStop", emitted |-> emitted, status |-> activeStatus,
                       prompt |-> store.prompt, attachments |-> store.pendingAttachments]
  IN /\ IF store.activeSessionId = NULL
        THEN /\ sent' = did(NULL)
             /\ UNCHANGED intents
        ELSE /\ sendEvent("session.stop")
             /\ sent' = did("session.stop")
     /\ UNCHANGED <<store, engine, notPrompt>>

handleStartFromModal == handleSend

\* Enter without Shift.
handleKeyDown == IF isRunning THEN handleStop ELSE handleSend

\* The round button: onClick={isRunning ? handleStop : handleSend}.
ClickSendButton == IF isRunning THEN handleStop ELSE handleSend

setPrompt(p) ==
  /\ p # store.prompt
  /\ store' = [store EXCEPT !.prompt = p]
  /\ sent' = noSend
  /\ UNCHANGED <<intents, engine, notPrompt>>

addAttachment(a) ==
  /\ a \notin store.pendingAttachments
  /\ store' = [store EXCEPT !.pendingAttachments = @ \cup {a}]
  /\ sent' = noSend
  /\ UNCHANGED <<intents, engine, notPrompt>>

removeAttachment(a) ==
  /\ a \in store.pendingAttachments
  /\ store' = [store EXCEPT !.pendingAttachments = @ \ {a}]
  /\ sent' = noSend
  /\ UNCHANGED <<intents, engine, notPrompt>>

\* The user opens the session, or the empty "new chat" view.
setActiveSessionId(id) ==
  /\ id # store.activeSessionId
  /\ id # NULL => store.status # UNDEF
  /\ store' = [store EXCEPT !.activeSessionId = id]
  /\ sent' = noSend
  /\ UNCHANGED <<intents, engine, notPrompt>>

\* A "status changed" notification reaches the renderer: the store's copy of
\* the status follows the engine's with a delay.
onStatusChanged ==
  /\ engine.status # "none"
  /\ store.status # engine.status \/ store.pendingStart
  /\ store' = [store EXCEPT !.status = engine.status,
                            !.pendingStart = FALSE,
                            !.activeSessionId = IF store.pendingStart THEN LoopSession ELSE @]
  /\ sent' = noSend
  /\ UNCHANGED <<intents, engine, notPrompt>>

\* ---- the loop engine

enterRunning(e) ==
  [e EXCEPT !.status = "running", !.phase = "model", !.loops = @ + 1,
            !.history = Append(@, "user"), !.prompts = @ + 1]

startSession(e) == IF e.status # "none" THEN e ELSE enterRunning(e)

\* A prompt re-enters Running from Idle or a terminal state only.
continueSession(e) == IF e.status \in {"none", "running"} THEN e ELSE enterRunning(e)

inFlight(e) == {i \in DOMAIN e.batch : e.batch[i].executes /\ e.batch[i].state = "pending"}

\* Variant of stopSession that stops a session in any status.
stopSession_Always(e) ==
  [e EXCEPT !.status = "stopped", !.phase = "idle",
            !.loops = IF e.status = "running" THEN @ - 1 ELSE @,
            !.orphans = @ + Cardinality(inFlight(e)),
            !.batch = <<>>, !.done = <<>>, !.executions = noExecutions]

stopSession(e) ==
  IF e.status # "running"
  THEN e
  ELSE [e EXCEPT !.status = "stopped", !.phase = "idle", !.loops = @ - 1,
                 !.orphans = @ + Cardinality(inFlight(e)),
                 !.batch = <<>>, !.done = <<>>, !.executions = noExecutions]

EngineHandle ==
  /\ intents # <<>>
  /\ LET ev == Head(intents)
         next == CASE ev.type = "session.start" -> startSession(engine)
                   [] ev.type = "session.continue" -> continueSession(engine)
                   [] ev.type = "session.stop" -> stopSession(engine)
     IN engine' = next
  /\ intents' = Tail(intents)
  /\ sent' = noSend
  /\ UNCHANGED <<store, notPrompt>>

\* Variant of executesCall that runs every call of the batch.
executesCall_All(b, i) == TRUE

\* Of identical calls in one batch the first is executed, the rest reuse it.
executesCall(b, i) == \A j \in 1..(i - 1) : b[j] # b[i]

ModelResponds(b) ==
  /\ engine.status = "running"
  /\ engine.phase = "model"
  /\ b # <<>> => engine.batches < MaxBatches
  /\ engine' =
       IF b = <<>>
       THEN [engine EXCEPT !.status = "completed", !.phase = "idle", !.loops = @ - 1]
       ELSE [engine EXCEPT !.phase = "batch", !.batches = @ + 1,
                           !.batch = [i \in 1..Len(b) |->
                                        [key |-> b[i], state |-> "pending", result |-> NULL,
                                         executes |-> executesCall(b, i)]],
                           !.executions = noExecutions, !.done = <<>>]
  /\ sent' = noSend
  /\ UNCHANGED <<store, intents, notPrompt>>

ProviderFails ==
  /\ engine.status = "running"
  /\ engine.phase = "model"
  /\ engine' = [engine EXCEPT !.status = "error", !.phase = "idle", !.loops = @ - 1]
  /\ sent' = noSend
  /\ UNCHANGED <<store, intents, notPrompt>>

resolvedBy(i, j) ==
  j = i \/ (~engine.batch[j].executes /\ engine.batch[j].key = engine.batch[i].key)

CapabilityFinishes(i, result) ==
  /\ engine.phase = "batch"
  /\ i \in inFlight(engine)
  /\ LET now == SelectSeq([j \in DOMAIN engine.batch |-> j], LAMBDA j : resolvedBy(i, j))
     IN engine' = [engine EXCEPT
          !.batch = [j \in DOMAIN engine.batch |->
                       IF resolvedBy(i, j)
                       THEN [engine.batch[j] EXCEPT !.state = "resolved", !.result = result]
                       ELSE engine.batch[j]],
          !.executions[engine.batch[i].key] = @ + 1,
          !.done = @ \o now]
  /\ sent' = noSend
  /\ UNCHANGED <<store, intents, notPrompt>>

allResolved(e) == \A i \in DOMAIN e.batch : e.batch[i].state = "resolved"

\* Variant that appends what has resolved so far and goes on to the model.
AppendBatch_Early ==
  /\ engine.phase = "batch"
  /\ engine.done # <<>>
  /\ engine' = [engine EXCEPT
       !.history = @ \o [n \in 1..Len(engine.done) |-> engine.batch[engine.done[n]].key],
       !.phase = "model", !.batch = <<>>, !.done = <<>>, !.executions = noExecutions]
  /\ sent' = noSend
  /\ UNCHANGED <<store, intents, notPrompt>>

AppendBatch ==
  /\ engine.phase = "batch"
  /\ allResolved(engine)
  /\ engine' = [engine EXCEPT
       !.history = @ \o [n \in 1..Len(engine.done) |-> engine.batch[engine.done[n]].key],
       !.phase = "model", !.batch = <<>>, !.done = <<>>, !.executions = noExecutions]
  /\ sent' = noSend
  /\ UNCHANGED <<store, intents, notPrompt>>

\* A call dispatched before the stop finishes: its result is dropped.
OrphanFinishes ==
  /\ engine.orphans > 0
  /\ engine' = [engine EXCEPT !.orphans = @ - 1]
  /\ sent' = noSend
  /\ UNCHANGED <<store, intents, notPrompt>>

promptsInFlight ==
  Cardinality({i \in DOMAIN intents : intents[i].type # "session.stop"})

\* Bounds: at most MaxInFlight events wait for the engine, one session is
\* started, and MaxPrompts prompts are sent.
canEmit ==
  /\ Len(intents) < MaxInFlight
  /\ store.activeSessionId = NULL => (~store.pendingStart /\ store.status = UNDEF)
  /\ engine.prompts + promptsInFlight < MaxPrompts

PromptNext ==
  \/ LoadStoredSession
  \/ \E p \in Prompts : setPrompt(p)
  \/ \E a \in Attachments : addAttachment(a)
  \/ \E a \in Attachments : removeAttachment(a)
  \/ \E id \in {NULL, LoopSession} : setActiveSessionId(id)
  \/ canEmit /\ handleKeyDown
  \/ canEmit /\ ClickSendButton
  \/ canEmit /\ handleStartFromModal
  \/ onStatusChanged
  \/ EngineHandle
  \/ \E b \in Batches : ModelResponds(b)
  \/ ProviderFails
  \/ \E i \in 1..2, result \in {"ok", "error"} : CapabilityFinishes(i, result)
  \/ AppendBatch
  \/ OrphanFinishes

-----------------------------------------------------------------------------
(* The scheduler service: a created task is stored, polled and fired *)

MaxFirings == 2

\* What the user typed as the schedule of the task that is followed.
TaskDescriptors ==
  {<<"e", "v", "e", "r", "y", " ", "3", "0", " ", "m", "i", "n", "u", "t", "e", "s">>,
   <<"e", "v", "e", "r", "y", " ", "5", " ", "m", "i", "n">>,
   <<"E", "v", "e", "r", "y", " ", "5", " ", "m", "i", "n">>,
   <<"e", "v", "e", "r", "y", " ", "1", "5", " ", "h", "o", "u", "r", "s">>,
   <<"i", "n", " ", "5", " ", "m", "i", "n">>,
   <<"i", "n", " ", "0", " ", "m", "i", "n">>,
   <<"a", "t", " ", "9", ":", "0", "5">>,
   <<"a", "t", " ", "2", "3", ":", "5", "9">>,
   <<"t", "o", "m", "o", "r", "r", "o", "w", " ", "a", "t", " ", "9", ":", "0", "5">>,
   <<"d", "a", "i", "l", "y", " ", "a", "t", " ", "9", ":", "0", "5">>,
   <<" ", "D", "a", "i", "l", "y", " ", "a", "t", " ", "2", "3", ":", "5", "9">>,
   <<"e", "v", "e", "r", "y", " ", "d", "a", "y", " ", "a", "t", " ", "2", "3", ":", "5", "9">>}

\* How long after nextRun the polling tick finds the task due.
PollDelays == {0, 17 * 1000}

NoTask == [schedule |-> <<>>, nextRun |-> NoNextRun, isRecurring |-> FALSE,
           enabled |-> FALSE, createdAt |-> 0, firings |-> 0]
NoFiring == [at |-> NoNextRun, wasRecurring |-> FALSE]

FiringInit ==
  /\ task = NoTask
  /\ fired = NoFiring

\* handleCreateTask builds the task record from the descriptor and the clock; the
\* service stores the payload of scheduler.task.create as it is.
TaskCreated(schedule, now) ==
  /\ task = NoTask
  /\ ~nextRunMissing(calculateNextRun(schedule, now))
  /\ task' = [schedule |-> schedule, nextRun |-> calculateNextRun(schedule, now),
              isRecurring |-> isRecurring(schedule), enabled |-> TRUE,
              createdAt |-> now, firings |-> 0]
  /\ fired' = NoFiring
  /\ UNCHANGED notFiring

\* A recurring task gets its next run from the same descriptor read at the
\* firing time; a one-shot task is disabled.
afterFiring(t, at) ==
  IF t.isRecurring
  THEN [t EXCEPT !.nextRun = calculateNextRun(t.schedule, at), !.firings = @ + 1]
  ELSE [t EXCEPT !.enabled = FALSE, !.firings = @ + 1]

\* The polling tick finds the task due (enabled, nextRun elapsed) and fires it.
FireTask(delay) ==
  /\ task # NoTask
  /\ task.enabled
  /\ task.firings < MaxFirings
  /\ task' = afterFiring(task, task.nextRun + delay)
  /\ fired' = [at |-> task.nextRun + delay, wasRecurring |-> task.isRecurring]
  /\ UNCHANGED notFiring

\* The polling tick finds nothing due.
IdleTick ==
  /\ task # NoTask
  /\ fired # NoFiring
  /\ fired' = NoFiring
  /\ UNCHANGED <<task, notFiring>>

\* handleDeleteTask: the task is removed from the schedule.
handleDeleteTask ==
  /\ task # NoTask
  /\ task' = NoTask
  /\ fired' = NoFiring
  /\ UNCHANGED notFiring

FiringNext ==
  \/ \E schedule \in TaskDescriptors, now \in Nows : TaskCreated(schedule, now)
  \/ \E delay \in PollDelays : FireTask(delay)
  \/ IdleTick
  \/ handleDeleteTask

-----------------------------------------------------------------------------
\* ---------------------------------------------------------------------------
\* Image IPC handlers of the main process (src/agent/main.ts):
\* "get-image-preview" and "save-pasted-image".

Platforms == {"linux", "win32"}

\* An argument that is undefined or "".
MissingArg == <<>>

PreviewCwds == {MissingArg, <<"/", "a">>, <<"/", "a", "/">>, <<"a">>, <<"/">>, <<"/", "A">>}

\* What fs.stat finds at the path.
StatOutcomes == {"file", "directory", "ENOENT"}

MissingPreviewArgs == "Missing image path or workspace folder"
AccessDenied == "Access denied: Path is outside the workspace folder"
NotAFile == "Not a file"

\* path.normalize of an absolute path: segments resolved, a trailing separator kept.
normalize(p) ==
  LET segs == NormalizeSegments(SplitPath(p), <<>>)
  IN IF segs = <<>> THEN <<sep>>
     ELSE JoinSegments(segs) \o (IF endsWith(p, <<sep>>) THEN <<sep>> ELSE <<>>)

\* The check with the workspace prefix compared without a separator.
previewAllowed_NoSeparator(cwd, path, platform) ==
  LET normalizedCwd == normalize(resolve(cwd))
      fullPath == normalize(resolve2(normalizedCwd, path))
      isWindows == platform = "win32"
      normalizedCwdCheck == IF isWindows THEN toLowerCase(normalizedCwd) ELSE normalizedCwd
      fullPathCheck == IF isWindows THEN toLowerCase(fullPath) ELSE fullPath
  IN fullPathCheck = normalizedCwdCheck \/ startsWith(fullPathCheck, normalizedCwdCheck)

\* The security check of get-image-preview.
previewAllowed(cwd, path, platform) ==
  LET normalizedCwd == normalize(resolve(cwd))
      fullPath == normalize(resolve2(normalizedCwd, path))
      isWindows == platform = "win32"
      normalizedCwdCheck == IF isWindows THEN toLowerCase(normalizedCwd) ELSE normalizedCwd
      fullPathCheck == IF isWindows THEN toLowerCase(fullPath) ELSE fullPath
      cwdWithSep == IF endsWith(normalizedCwdCheck, <<sep>>)
                    THEN normalizedCwdCheck
                    ELSE normalizedCwdCheck \o <<sep>>
  IN fullPathCheck = normalizedCwdCheck \/ startsWith(fullPathCheck, cwdWithSep)

NoPreview ==
  [cwd |-> MissingArg, path |-> MissingArg, platform |-> "linux",
   stat |-> FALSE, fsPath |-> <<>>, error |-> NULL, returned |-> FALSE]

NoPasted ==
  [cwd |-> MissingArg, fileName |-> MissingArg, writeFile |-> FALSE, fullPath |-> <<>>,
   path |-> <<>>, name |-> <<>>, error |-> NULL]

ImagesInit ==
  /\ preview = NoPreview
  /\ pasted = NoPasted

\* ipcMain.handle("get-image-preview"): stat tells whether the file system was
\* reached, fsPath the path handed to it (fs.stat, then sharp or fs.readFile).
GetImagePreview(cwd, path, platform, stat) ==
  /\ preview' =
       LET call0 == [NoPreview EXCEPT !.cwd = cwd, !.path = path, !.platform = platform]
           fullPath == normalize(resolve2(normalize(resolve(cwd)), path))
       IN IF cwd = MissingArg \/ path = MissingArg
          THEN [call0 EXCEPT !.error = MissingPreviewArgs]
          ELSE IF ~previewAllowed(cwd, path, platform)
          THEN [call0 EXCEPT !.error = AccessDenied]
          ELSE IF stat = "ENOENT"
          THEN [call0 EXCEPT !.stat = TRUE, !.fsPath = fullPath, !.error = "ENOENT"]
          ELSE IF stat # "file"
          THEN [call0 EXCEPT !.stat = TRUE, !.fsPath = fullPath, !.error = NotAFile]
          ELSE [call0 EXCEPT !.stat = TRUE, !.fsPath = fullPath, !.returned = TRUE]
  /\ UNCHANGED pasted
  /\ UNCHANGED notImages

\* ---- save-pasted-image

AttachmentsDirName == <<".", "l", "o", "c", "a", "l", "d", "e", "s", "k", "-", "a", "t", "t", "a", "c", "h", "m", "e", "n", "t", "s">>

\* The data URLs the renderer may send, by what the handler's regular expression
\* and size limit make of them: the mime type matched, or no match, or too large.
NoDataUrl == ""

DataUrls == {NoDataUrl, "invalid", "image/png", "image/jpeg", "image/x-icon", "too large"}

ext_png == <<"p", "n", "g">>
ext_jpg == <<"j", "p", "g">>

\* The table of extensions by mime type, with its default.
preferredExtOf(mime) ==
  IF mime = "image/jpeg" THEN ext_jpg ELSE ext_png

\* File names the renderer may send along with the pasted image.
PastedFileNames ==
  RequestPaths \cup
  {<<"a", ".", "p", "n", "g">>, <<"a", ".", "P", "N", "G">>, <<"a", ".", "j", "p", "g">>, <<".", ".", "p", "n", "g">>, <<".", "p", "n", "g">>, <<".", ".", "/", ".", ".", "/", "a", ".", "p", "n", "g">>,
   <<"a", "/", ".", ".", "/", ".", ".">>, <<"/", "a", "/", ".", ".">>, <<"a", "^", ".", "j", "p", "g", "/">>}

\* The name generated when no file name is given: pasted-<time>-<uuid>.
GeneratedBaseName == <<"p", "a", "s", "t", "e", "d", "-", "1", "-", "u">>

RECURSIVE stripTrailingSeps(_)
stripTrailingSeps(p) ==
  IF p # <<>> /\ p[Len(p)] = sep THEN stripTrailingSeps(SubSeq(p, 1, Len(p) - 1)) ELSE p

\* path.basename: the last segment, trailing separators ignored.
basename(p) ==
  LET q == stripTrailingSeps(p)
      segs == SplitPath(q)
  IN segs[Len(segs)]

SafeNameChars ==
  {"a", "A", "d", "e", "g", "G", "j", "J", "n", "N", "p", "P", "s", "t", "u",
   "1", ".", "_", "-"}

\* baseName.replace(/[^a-zA-Z0-9._-]/g, "_")
sanitize(s) == [i \in DOMAIN s |-> IF s[i] \in SafeNameChars THEN s[i] ELSE "_"]

\* path.extname of a name without separators: from the last dot on; "" when
\* there is no dot, when the name starts with its only dot, and for "..".
extname(b) ==
  IF \A i \in DOMAIN b : b[i] # "." THEN <<>>
  ELSE LET startDot == CHOOSE i \in DOMAIN b : b[i] = "." /\ \A j \in (i + 1)..Len(b) : b[j] # "."
       IN IF startDot = 1 \/ (b[1] = "." /\ startDot = Len(b) /\ startDot = 2)
          THEN <<>>
          ELSE SubSeq(b, startDot, Len(b))

\* The final name with a name that has no extension left as it is.
finalNameOf_KeepBare(sanitizedBase, preferredExt) ==
  LET currentExt == toLowerCase(extname(sanitizedBase))
  IN IF currentExt = <<>> THEN sanitizedBase
     ELSE IF currentExt # <<".">> \o preferredExt
     THEN SubSeq(sanitizedBase, 1, Len(sanitizedBase) - Len(currentExt))
            \o <<".">> \o preferredExt
     ELSE sanitizedBase

\* The final name: the sanitized base with the extension the mime type asks for.
finalNameOf(sanitizedBase, preferredExt) ==
  LET currentExt == toLowerCase(extname(sanitizedBase))
  IN IF currentExt = <<>> THEN sanitizedBase \o <<".">> \o preferredExt
     ELSE IF currentExt # <<".">> \o preferredExt
     THEN SubSeq(sanitizedBase, 1, Len(sanitizedBase) - Len(currentExt))
            \o <<".">> \o preferredExt
     ELSE sanitizedBase

\* path.join of an absolute directory and a name: concatenated, then normalized.
join(dir, name) == normalize(dir \o <<sep>> \o name)

\* path.relative(from, to) of two resolved paths, as far as the descent goes;
\* a target outside "from" is reached through "..".
relative(from, to) ==
  IF to = from THEN <<>>
  ELSE IF from = <<sep>> THEN Slice1(to)
  ELSE IF startsWith(to, from \o <<sep>>) THEN SubSeq(to, Len(from) + 2, Len(to))
  ELSE <<".", ".">>

\* ipcMain.handle("save-pasted-image"): writeFile tells whether a file was
\* written, fullPath where.
SavePastedImage(dataUrl, cwd, fileName) ==
  /\ pasted' =
       LET call0 == [NoPasted EXCEPT !.cwd = cwd, !.fileName = fileName]
           normalizedCwd == resolve(cwd)
           attachmentsDir == join(normalizedCwd, AttachmentsDirName)
           baseName == IF fileName # MissingArg
                       THEN basename(fileName)
                       ELSE GeneratedBaseName
           sanitizedBase == sanitize(baseName)
           finalName == finalNameOf(sanitizedBase, preferredExtOf(dataUrl))
           fullPath == join(attachmentsDir, finalName)
       IN IF dataUrl = NoDataUrl \/ cwd = MissingArg
          THEN [call0 EXCEPT !.error = "Missing image data or workspace folder"]
          ELSE IF dataUrl = "invalid"
          THEN [call0 EXCEPT !.error = "Invalid image data URL"]
          ELSE IF dataUrl = "too large"
          THEN [call0 EXCEPT !.error = "Image is too large (max 15MB)"]
          ELSE [call0 EXCEPT !.writeFile = TRUE, !.fullPath = fullPath,
                             !.path = relative(normalizedCwd, fullPath),
                             !.name = finalName]
  /\ UNCHANGED preview
  /\ UNCHANGED notImages

\* The renderer has received the handler's answer; the next call may come.
ImageCallReturned ==
  /\ ~(preview = NoPreview /\ pasted = NoPasted)
  /\ preview' = NoPreview
  /\ pasted' = NoPasted
  /\ UNCHANGED notImages

\* No call has been made, or the last one has been answered.
imagesIdle == preview = NoPreview /\ pasted = NoPasted

\* One call is followed at a time, from its arguments to its answer.
ImagesNext ==
  \/ /\ imagesIdle
     /\ \E cwd \in PreviewCwds, path \in RequestPaths, platform \in Platforms,
           stat \in StatOutcomes :
          GetImagePreview(cwd, path, platform, stat)
  \/ /\ imagesIdle
     /\ \E dataUrl \in DataUrls, cwd \in PreviewCwds, fileName \in PastedFileNames :
          SavePastedImage(dataUrl, cwd, fileName)
  \/ ImageCallReturned

\* ---------------------------------------------------------------------------
\* Skills settings store (skills-settings.json in the user data folder).

SkillIds == {"pdf", "xlsx"}
MaxSkills == 2

DEFAULT_MARKETPLACE_URL == "https://api.github.com/repos/vakovalskii/LocalDesk-Skills/contents/skills"
MarketplaceUrls == {"", "https://example.org/skills"}

\* A skill, cut down to its id and its enabled flag.
SkillRecords == [id : SkillIds, enabled : BOOLEAN]

\* The lists a marketplace fetch may hand to updateSkillsList.
SkillLists == UNION {[1..n -> SkillRecords] : n \in 0..MaxSkills}

\* skills.find(s => s.id === skillId): the index of the first match, 0 for none.
findIndex(skills, skillId) ==
  IF \E i \in DOMAIN skills : skills[i].id = skillId
  THEN CHOOSE i \in DOMAIN skills :
         skills[i].id = skillId /\ \A j \in 1..(i - 1) : skills[j].id # skillId
  ELSE 0

\* new Map(skills.map(s => [s.id, s.enabled])).get(id): of several entries with
\* the same key the last one stays; UNDEF for a missing key.
existingEnabled(skills, skillId) ==
  IF \E i \in DOMAIN skills : skills[i].id = skillId
  THEN LET last == CHOOSE i \in DOMAIN skills :
                     skills[i].id = skillId /\ \A j \in (i + 1)..Len(skills) : skills[j].id # skillId
       IN IF skills[last].enabled THEN JsTrue ELSE JsFalse
  ELSE UNDEF

\* The settings file does not exist yet.
NoSkillsFile == [exists |-> FALSE, marketplaceUrl |-> "", skills |-> <<>>, lastFetched |-> UNDEF]

loadSkillsSettings(file) ==
  IF file.exists
  THEN [marketplaceUrl |-> IF Truthy(file.marketplaceUrl) THEN file.marketplaceUrl
                           ELSE DEFAULT_MARKETPLACE_URL,
        skills |-> file.skills,
        lastFetched |-> file.lastFetched]
  ELSE [marketplaceUrl |-> DEFAULT_MARKETPLACE_URL, skills |-> <<>>, lastFetched |-> UNDEF]

saveSkillsSettings(loaded) ==
  [exists |-> TRUE, marketplaceUrl |-> loaded.marketplaceUrl, skills |-> loaded.skills,
   lastFetched |-> loaded.lastFetched]

NoSkillOp == [op |-> NULL, skillId |-> NULL, enabled |-> FALSE, listed |-> <<>>, before |-> <<>>]

idsOf(skills) == {skills[i].id : i \in DOMAIN skills}

SkillsInit ==
  /\ skillsFile = NoSkillsFile
  /\ skillOp = NoSkillOp
  /\ toggledOnSince = {}

toggleSkill(skillId, enabled) ==
  LET loaded == loadSkillsSettings(skillsFile)
      i == findIndex(loaded.skills, skillId)
  IN /\ skillsFile' =
          IF i # 0
          THEN saveSkillsSettings([loaded EXCEPT !.skills[i].enabled = enabled])
          ELSE skillsFile
     /\ skillOp' = [NoSkillOp EXCEPT !.op = "toggleSkill", !.skillId = skillId,
                                     !.enabled = enabled, !.before = loaded.skills]
     /\ toggledOnSince' =
          IF enabled /\ i # 0 THEN toggledOnSince \cup {skillId} ELSE toggledOnSince
     /\ UNCHANGED notSkills

updateSkillsList(skills) ==
  LET loaded == loadSkillsSettings(skillsFile)
      merged == [i \in DOMAIN skills |->
                   [skills[i] EXCEPT
                      !.enabled = existingEnabled(loaded.skills, skills[i].id) = JsTrue]]
  IN /\ skillsFile' = saveSkillsSettings([loaded EXCEPT !.skills = merged,
                                                          !.lastFetched = "now"])
     /\ skillOp' = [NoSkillOp EXCEPT !.op = "updateSkillsList", !.listed = skills,
                                     !.before = loaded.skills]
     /\ toggledOnSince' = toggledOnSince \cap idsOf(skills)
     /\ UNCHANGED notSkills

setMarketplaceUrl(url) ==
  LET loaded == loadSkillsSettings(skillsFile)
  IN /\ skillsFile' = saveSkillsSettings([loaded EXCEPT !.marketplaceUrl = url])
     /\ skillOp' = [NoSkillOp EXCEPT !.op = "setMarketplaceUrl", !.before = loaded.skills]
     /\ UNCHANGED toggledOnSince
     /\ UNCHANGED notSkills

\* getEnabledSkills
getEnabledSkills == SelectSeq(loadSkillsSettings(skillsFile).skills, LAMBDA s : s.enabled)

SkillsNext ==
  \/ \E skillId \in SkillIds, enabled \in BOOLEAN : toggleSkill(skillId, enabled)
  \/ \E skills \in SkillLists : updateSkillsList(skills)
  \/ \E url \in MarketplaceUrls : setMarketplaceUrl(url)

Init ==
  /\ RouterInit
  /\ ToolsInit
  /\ FilesInit
  /\ SandboxInit
  /\ ViewInit
  /\ WindowInit
  /\ SchedulerInit
  /\ PromptInit
  /\ FiringInit
  /\ ImagesInit
  /\ SkillsInit

Next ==
  \/ RouterNext
  \/ ToolsNext
  \/ FilesNext
  \/ SandboxNext
  \/ ViewNext
  \/ WindowNext
  \/ SchedulerNext
  \/ PromptNext
  \/ FiringNext
  \/ ImagesNext
  \/ SkillsNext

Spec == Init /\ [][Next]_vars

\* The subsystems share no state: each is also checked on its own.
SpecRouter == Init /\ [][RouterNext]_vars
SpecTools == Init /\ [][ToolsNext]_vars
SpecFiles == Init /\ [][FilesNext]_vars
SpecSandbox == Init /\ [][SandboxNext]_vars
SpecRenderView == Init /\ [][ViewNext]_vars
SpecRenderWindow == Init /\ [][WindowNext]_vars
SpecScheduler == Init /\ [][SchedulerNext]_vars
SpecPrompt == Init /\ [][PromptNext]_vars
SpecFiring == Init /\ [][FiringNext]_vars
SpecImages == Init /\ [][ImagesNext]_vars
SpecSkills == Init /\ [][SkillsNext]_vars

\* The host's event loop runs every continuation that is ready, and the engine
\* keeps executing the script it was given.
SpecSandboxFair == SpecSandbox /\ \A c \in Calls : WF_vars(CallStep(c))

-----------------------------------------------------------------------------
(* Properties *)

Range(seq) == {seq[i] : i \in DOMAIN seq}
TerminalForRouting == {"completed", "error"}

\* C1: shouldNotifyForSession returns true exactly when the status is completed
\* or error, a session id is present (neither null nor empty) and either no
\* session is focused or the focused session differs from the event's session.
C1_NotifyExactlyWhenEligible ==
  notifyDecision.status # NULL =>
    (notifyDecision.notify <=>
       /\ notifyDecision.status \in TerminalForRouting
       /\ notifyDecision.sessionId \notin {NULL, ""}
       /\ \/ notifyDecision.focused \in {NULL, ""}
          \/ notifyDecision.focused # notifyDecision.sessionId)

C1_Witness ==
  /\ notifyDecision.status = "error"
  /\ notifyDecision.sessionId = "A"
  /\ notifyDecision.focused = "B"
  /\ notifyDecision.notify

\* C2: with a session F focused, shouldMarkHistoryStale returns true exactly
\* when the event's session differs from F and the status is completed or error.
C2_StaleExactlyForBackgroundTerminal ==
  (staleDecision.status # NULL /\ staleDecision.active \in SessionIds) =>
    (staleDecision.stale <=>
       /\ staleDecision.sessionId # staleDecision.active
       /\ staleDecision.status \in TerminalForRouting)

C2_Witness ==
  /\ staleDecision.active = "A"
  /\ staleDecision.sessionId = "B"
  /\ staleDecision.status = "completed"
  /\ staleDecision.stale

\* C6: whatever the settings (null included), the offered tool list has no
\* manage_memory unless enableMemory is set, no read_page unless enableZaiReader
\* is set and zaiApiKey is non-empty, and has every other registered tool.
C6_DisabledToolsNotOffered ==
  offered.by # NULL =>
    LET s == offered.settings
        names == Range(offered.tools)
    IN /\ "manage_memory" \in names => (~s.isNull /\ s.enableMemory = JsTrue)
       /\ "read_page" \in names =>
            (~s.isNull /\ s.enableZaiReader = JsTrue /\ s.zaiApiKey \notin {UNDEF, ""})
       /\ \A t \in Range(ALL_TOOL_DEFINITIONS) \ {"manage_memory", "read_page"} : t \in names

C6_Witness ==
  /\ offered.by = "getTools"
  /\ ~offered.settings.isNull
  /\ offered.settings.enableZaiReader = JsTrue
  /\ offered.settings.zaiApiKey = ""
  /\ offered.settings.enableMemory = JsTrue
  /\ "read_page" \notin Range(offered.tools)
  /\ "manage_memory" \in Range(offered.tools)

\* C4: list-directory reads a directory only if its normalized path equals, or
\* is a descendant (on a path-separator boundary) of, the normalized workspace
\* root of some stored session; any other path is answered with an empty list
\* and no read.
C4_ListDirectoryOnlyInsideWorkspace ==
  (listing.phase = "done" /\ (listing.readdir \/ listing.entries)) =>
    \E i \in DOMAIN sessions :
      /\ sessions[i] # <<>>
      /\ IsWithinRoot(normalizePath(listing.dirPath), normalizePath(sessions[i]))

\* C3: an execute_js call whose code never terminates and that carries a
\* configured timeout eventually returns a failed result reporting the timeout.
C3_InfiniteLoopTimesOut ==
  \A c \in Calls :
    (call[c].pc = "eval" /\ call[c].code = "loops" /\ call[c].timeoutArg # NoTimeout)
      ~> (call[c].pc = "returned" /\ ~call[c].success
            /\ call[c].error = "interrupted (timeout)")

\* C5: the host file system is accessed for sandboxed code only after isPathSafe
\* has been asked about the resolved path and has accepted it; a rejected path
\* fails inside the sandbox and the host file system is not touched.
C5_HostFsOnlyAfterPathCheck ==
  /\ hostFs.touched => (hostFs.checked /\ isPathSafe(hostFs.cwd, hostFs.path))
  /\ hostFs.denied => ~hostFs.touched

\* C8: across any interleaving of concurrent execute_js calls, at most one script
\* is executing inside the QuickJS engine at a time.
C8_OneScriptInEngine ==
  Cardinality({c \in Calls : call[c].pc = "eval"}) <= 1

C8_Witness ==
  /\ call["c1"].pc = "eval"
  /\ call["c1"].hostCalls > 0
  /\ call["c2"].pc = "awaitModule"

\* C7: at most one render_page call at a time drives the shared render view: a
\* call that overlaps another does not load into the view while the other is
\* between its load and its extraction.
C7_RenderViewCallsSerialized ==
  Cardinality({c \in RenderCalls : InFlightOnView(c)}) <= 1

\* C9: render_page makes at most MAX_RETRIES attempts per call, a later attempt
\* starts only once RETRY_DELAY_MS have passed since the failed one, and no attempt
\* follows a successful one.
C9_BoundedRetriesWithDelay ==
  \A c \in WindowCalls :
    /\ wcall[c].attempt <= MAX_RETRIES
    /\ wcall[c].attempt > 1 => wcall[c].waited >= RETRY_DELAY_MS
    /\ wcall[c].succeededAt # 0 => wcall[c].attempt = wcall[c].succeededAt

C9_Witness ==
  \E c \in WindowCalls :
    /\ wcall[c].attempt = MAX_RETRIES
    /\ wcall[c].succeededAt = MAX_RETRIES
    /\ wcall[c].pc = "returned"
    /\ wcall[c].success

\* The descriptor, lower-cased and trimmed, has one of the five grammar forms.
MatchesGrammar(scheduleStr) ==
  LET d == trim(toLowerCase(scheduleStr))
  IN inMatch(d).ok \/ atMatch(d).ok \/ tomorrowMatch(d).ok \/ dailyMatch(d).ok
       \/ everyMatch(d).ok

\* C10: a click on "Create Task" with a descriptor that has none of the five
\* grammar forms shows the validation error and sends no scheduler.task.create
\* event.
C10_UnparseableDescriptorRejected ==
  (created.clicked /\ ~MatchesGrammar(created.schedule)) =>
    /\ created.event.type = NULL
    /\ created.alert = "Invalid schedule format"

C10_Witness ==
  /\ created.clicked
  /\ ~MatchesGrammar(created.schedule)
  /\ startsWith(trim(toLowerCase(created.schedule)), word_every)
  /\ created.alert = "Invalid schedule format"
  /\ form.schedule = created.schedule

\* The descriptor, lower-cased and trimmed, has one of the two recurring forms.
RecurringForm(scheduleStr) ==
  LET d == trim(toLowerCase(scheduleStr))
  IN dailyMatch(d).ok \/ everyMatch(d).ok

\* C11: the task created from an accepted descriptor, whatever its letter case or
\* surrounding whitespace, has isRecurring true exactly when the descriptor is an
\* "every ..." or "daily ..." form.
C11_RecurringExactlyForEveryAndDaily ==
  created.event.type = "scheduler.task.create" =>
    (created.event.isRecurring <=> RecurringForm(created.schedule))

\* The length in milliseconds of the unit a descriptor names.
UnitLength(unit) ==
  IF unit \in {<<"m", "i", "n">>, <<"m", "i", "n", "s">>, <<"m", "i", "n", "u", "t", "e">>,
               <<"m", "i", "n", "u", "t", "e", "s">>} THEN MsPerMinute
  ELSE IF unit \in {<<"d", "a", "y">>, <<"d", "a", "y", "s">>} THEN MsPerDay
  ELSE MsPerHour

\* The amount and unit of an offset descriptor ("in N unit" or "every N unit").
OffsetOf(scheduleStr) ==
  LET d == trim(toLowerCase(scheduleStr))
  IN IF inMatch(d).ok THEN inMatch(d) ELSE everyMatch(d)

\* C12: for "in N minutes|hours|days" and "every N minutes|hours" evaluated at
\* time T, the next run is exactly T plus N times the length of the unit.
C12_OffsetIsNowPlusAmount ==
  (created.event.type = "scheduler.task.create" /\ OffsetOf(created.schedule).ok) =>
    created.event.nextRun =
      created.now + OffsetOf(created.schedule).n1 * UnitLength(OffsetOf(created.schedule).unit)

C12_Witness ==
  /\ created.event.type = "scheduler.task.create"
  /\ OffsetOf(created.schedule).ok
  /\ startsWith(trim(toLowerCase(created.schedule)), word_every)
  /\ OffsetOf(created.schedule).n1 = 15
  /\ UnitLength(OffsetOf(created.schedule).unit) = MsPerHour
  /\ created.event.nextRun = created.now + 15 * MsPerHour

\* The hours and minutes of a time-of-day descriptor ("at", "daily at",
\* "every day at").
TimeOfDayOf(scheduleStr) ==
  LET d == trim(toLowerCase(scheduleStr))
  IN IF atMatch(d).ok THEN atMatch(d) ELSE dailyMatch(d)

DayOf(t) == t \div MsPerDay
HourOf(t) == (t % MsPerDay) \div MsPerHour
MinuteOf(t) == (t % MsPerHour) \div MsPerMinute

\* C13: for "at HH:MM", "daily at HH:MM" and "every day at HH:MM" evaluated at
\* time now, the next run is at HH:MM:00 local time, today when that instant is
\* later than now and on the next calendar day otherwise.
C13_NextOccurrenceOfTimeOfDay ==
  (created.event.type = "scheduler.task.create" /\ TimeOfDayOf(created.schedule).ok) =>
    LET hm == TimeOfDayOf(created.schedule)
        r == created.event.nextRun
        laterToday ==
          (created.now % MsPerDay) < hm.n1 * MsPerHour + hm.n2 * MsPerMinute
    IN /\ HourOf(r) = hm.n1
       /\ MinuteOf(r) = hm.n2
       /\ r % MsPerMinute = 0
       /\ DayOf(r) = IF laterToday THEN DayOf(created.now) ELSE DayOf(created.now) + 1

\* The calls whose arguments have been handed to the engine.
HandedToEngine(c) == call[c].pc \notin {"idle", "rejected"}

\* C14: the timeout handed to the engine is 5000 ms when the caller gives none,
\* the caller's value when it lies in 100..30000 ms, and never above 30000 ms nor
\* below 100 ms.
C14_TimeoutWithinDeclaredRange ==
  \A c \in Calls :
    HandedToEngine(c) =>
      /\ call[c].timeoutArg = NoTimeout => call[c].timeout = 5000
      /\ call[c].timeoutArg \in 100..30000 => call[c].timeout = call[c].timeoutArg
      /\ call[c].timeout <= 30000
      /\ call[c].timeout >= 100

\* C15: by the time executeInQuickJS has returned, the context the call created
\* has been disposed, on every path.
C15_ContextDisposedOnReturn ==
  \A c \in Calls :
    call[c].pc \in {"awaitResult", "returned"} => call[c].vm # "live"

C17_ToolCallsAlwaysResolve ==
  /\ \A c \in Calls : call[c].pc # "rejected"
  /\ \A c \in WindowCalls : wcall[c].pc # "rejected"
  /\ \A c \in RenderCalls : vcall[c].pc # "rejected"

stopHandled ==
  /\ intents # <<>>
  /\ Head(intents).type = "session.stop"
  /\ intents' = Tail(intents)

\* C18: a stop request for a session that is not running changes nothing; a stop
\* request for a running session moves it to stopped, and from then on no batch
\* is issued and the results of the tool calls that were in flight are dropped,
\* never appended to the history.
C18_StopIsIdempotentAndDiscards ==
  [][ /\ stopHandled =>
           IF engine.status # "running"
           THEN engine' = engine
           ELSE engine'.status = "stopped"
      /\ (engine.status = "stopped" /\ engine'.status = "stopped") =>
           /\ engine'.phase = "idle"
           /\ engine'.batches = engine.batches
           /\ engine'.history = engine.history
      /\ engine'.orphans < engine.orphans => engine'.history = engine.history
    ]_vars

C18_Witness ==
  /\ engine.status = "stopped"
  /\ engine.orphans > 0
  /\ engine.history = <<"user">>

C20_IdenticalCallsExecuteOnce ==
  engine.phase = "batch" =>
    /\ \A k \in ToolKeys : engine.executions[k] <= 1
    /\ \A i, j \in DOMAIN engine.batch :
         engine.batch[i].key = engine.batch[j].key =>
           /\ engine.batch[i].state = engine.batch[j].state
           /\ engine.batch[i].result = engine.batch[j].result
    /\ allResolved(engine) =>
         \A i \in DOMAIN engine.batch : engine.executions[engine.batch[i].key] = 1

C20_Witness ==
  /\ engine.phase = "batch"
  /\ Len(engine.batch) = 2
  /\ engine.batch[1].key = engine.batch[2].key
  /\ allResolved(engine)
  /\ engine.batch[2].result = "error"
  /\ engine.executions[engine.batch[1].key] = 1

\* C21: the results of a batch are appended to the history in one step, taken
\* only when every call of the batch has resolved; and while the model is being
\* called no call of the loop's batch is outstanding.
C21_BatchAppendedOnlyWhenComplete ==
  [][ /\ engine'.history # engine.history =>
           \/ engine'.history = Append(engine.history, "user")
           \/ /\ engine.phase = "batch"
              /\ engine.batch # <<>>
              /\ allResolved(engine)
              /\ Len(engine'.history) = Len(engine.history) + Len(engine.batch)
      /\ engine'.phase = "model" => inFlight(engine') = {}
      /\ engine'.batches > engine.batches => inFlight(engine) = {}
    ]_vars

C21_Witness ==
  /\ engine.phase = "model"
  /\ engine.history = <<"user", "k2", "k1">>

\* C22: when a due task fires, a one-shot task ends disabled and has fired once
\* only, while a task with a recurring descriptor stays enabled, and an
\* "every N <unit>" task fired at F has nextRun = F + N units, whatever its
\* creation time was.
C22_FiringDisablesOrRecomputes ==
  /\ fired # NoFiring =>
       IF RecurringForm(task.schedule)
       THEN /\ task.enabled
            /\ OffsetOf(task.schedule).ok =>
                 task.nextRun =
                   fired.at + OffsetOf(task.schedule).n1 * UnitLength(OffsetOf(task.schedule).unit)
       ELSE ~task.enabled
  /\ (task # NoTask /\ ~RecurringForm(task.schedule)) => task.firings <= 1

\* C27: the task created from an accepted descriptor has a next run strictly
\* later than the clock reading it was computed from.
C27_NextRunStrictlyLater ==
  created.event.type = "scheduler.task.create" => created.event.nextRun > created.now

\* The HH:MM of a descriptor of one of the four forms that name a time of day.
ClockTimeOf(scheduleStr) ==
  LET d == trim(toLowerCase(scheduleStr))
  IN IF atMatch(d).ok THEN atMatch(d)
     ELSE IF tomorrowMatch(d).ok THEN tomorrowMatch(d)
     ELSE dailyMatch(d)

\* C28: an accepted "at", "tomorrow at", "daily at" or "every day at" descriptor
\* names an hour in 0..23 and a minute in 0..59, and the next run falls on exactly
\* that time of day; an out-of-range time creates no task.
C28_TimeOfDayInRange ==
  (created.event.type = "scheduler.task.create" /\ ClockTimeOf(created.schedule).ok) =>
    /\ ClockTimeOf(created.schedule).n1 \in 0..23
    /\ ClockTimeOf(created.schedule).n2 \in 0..59
    /\ HourOf(created.event.nextRun) = ClockTimeOf(created.schedule).n1
    /\ MinuteOf(created.event.nextRun) = ClockTimeOf(created.schedule).n2

\* The segments of a resolved path, letter case folded where the platform's file
\* system does not distinguish it.
segmentsOf(p, platform) ==
  NormalizeSegments(SplitPath(IF platform = "win32" THEN toLowerCase(p) ELSE p), <<>>)

\* The workspace folder's segments are the leading segments of the path's.
beneathWorkspace(call0) ==
  LET root == segmentsOf(resolve(call0.cwd), call0.platform)
      target == segmentsOf(resolve2(resolve(call0.cwd), call0.path), call0.platform)
  IN Len(root) <= Len(target) /\ SubSeq(target, 1, Len(root)) = root

\* C23: the image-preview handler hands a path to the file system only when the
\* path, resolved against the workspace folder, is that folder or lies beneath it
\* segment by segment; any other path is answered with the access-denied error
\* and the file system is not reached.
C23_PreviewStaysInWorkspace ==
  /\ preview.stat =>
       /\ beneathWorkspace(preview)
       /\ preview.fsPath = resolve2(resolve(preview.cwd), preview.path)
  /\ (preview.cwd # MissingArg /\ preview.path # MissingArg /\ ~beneathWorkspace(preview)) =>
       /\ preview.error = AccessDenied
       /\ ~preview.stat /\ ~preview.returned

\* "/aa" asked of the workspace /a: a sibling folder sharing the prefix, refused.
C23_Witness ==
  /\ preview.cwd = <<"/", "a">> /\ preview.path = <<"/", "a", "a">>
  /\ preview.error = AccessDenied /\ ~preview.stat

\* The segments of a path as written, empty ones left out.
rawSegments(p) == SelectSeq(SplitPath(p), LAMBDA x : x # <<>>)

\* C26: whenever save-pasted-image writes a file, the file is a direct child of
\* <cwd>/.localdesk-attachments, its name is one plain segment, and the relative
\* path returned is .localdesk-attachments/<name>, inside cwd; this for every
\* file name, with separators or ".." or without.
C26_PastedImageStaysInAttachments ==
  pasted.writeFile =>
    LET dir == rawSegments(resolve(pasted.cwd)) \o <<AttachmentsDirName>>
        file == rawSegments(pasted.fullPath)
    IN /\ file = Append(dir, pasted.name)
       /\ pasted.name \notin {<<>>, <<".">>, <<".", ".">>}
       /\ \A i \in DOMAIN pasted.name : pasted.name[i] # sep
       /\ SplitPath(pasted.path) = <<AttachmentsDirName, pasted.name>>

\* A file name that climbs out of the folder is stored under its last segment.
C26_Witness ==
  /\ pasted.writeFile
  /\ pasted.cwd = <<"/", "a">>
  /\ pasted.fileName = <<".", ".", "/", ".", ".", "/", "a", ".", "p", "n", "g">>
  /\ pasted.name = <<"a", ".", "p", "n", "g">>

\* C24: in render_page a load attempt that ends with the 30 s timeout ends the
\* call at once with a failure, without another attempt; one that ends with a
\* load error is followed by the retry delay and then by the next attempt while
\* fewer than MAX_RETRIES attempts have been made, and ends the call otherwise.
C24_TimeoutEndsRetriesLoadErrorRetries ==
  [][ \A c \in WindowCalls :
        /\ (wcall[c].pc = "loading" /\ wcall'[c].pc # "loading" /\ wcall'[c].lastError = LoadTimeoutError) =>
             /\ wcall'[c].pc = "returned" /\ ~wcall'[c].success
             /\ wcall'[c].attempt = wcall[c].attempt
             /\ wcall'[c].window = "none"
        /\ (wcall[c].pc = "loading" /\ wcall'[c].pc # "loading" /\ wcall'[c].lastError \in LoadErrors) =>
             /\ wcall'[c].attempt = wcall[c].attempt
             /\ IF wcall[c].attempt < 3
                THEN wcall'[c].pc = "retryDelay"
                ELSE wcall'[c].pc = "returned" /\ ~wcall'[c].success
        /\ (wcall[c].pc = "retryDelay" /\ wcall'[c].pc # "retryDelay") =>
             /\ wcall'[c].pc = "loading"
             /\ wcall'[c].attempt = wcall[c].attempt + 1
        /\ (wcall[c].pc = "returned" /\ wcall'[c].pc # "returned") =>
             wcall'[c].pc = "idle" ]_vars

\* A load error on the first attempt, the timeout on the second: the call is over.
C24_Witness ==
  \E c \in WindowCalls :
    /\ wcall[c].pc = "returned"
    /\ wcall[c].lastError = LoadTimeoutError
    /\ wcall[c].attempt = 2
    /\ ~wcall[c].success

\* C25: once every render_page call has returned, no rendering surface is left:
\* the shared view is not attached to the main window, and a call over hidden
\* windows has closed every window it opened.
C25_NoSurfaceLeftAfterReturn ==
  /\ (\A c \in RenderCalls : ~InFlightOnView(c)) => ~renderView.attached
  /\ \A c \in WindowCalls :
       wcall[c].pc \in {"returned", "rejected"} =>
         wcall[c].window = "none" /\ wcall[c].closed = wcall[c].opened

\* C29: for the same focused session and event session, whatever the status,
\* partial output is not handled and a notification shown both: partial output is
\* handled only for the focused session, a notification fires only for a session
\* that is not the focused one.
C29_PartialAndNotificationExclusive ==
  /\ partialDecision.handle =>
       /\ partialDecision.sessionId = partialDecision.focused
       /\ partialDecision.sessionId \in SessionIds
       /\ \A st \in SessionStatuses :
            ~shouldNotifyForSession(st, partialDecision.sessionId, partialDecision.focused)
  /\ notifyDecision.notify =>
       /\ notifyDecision.sessionId # notifyDecision.focused
       /\ ~shouldHandlePartialMessage(notifyDecision.focused, notifyDecision.sessionId)

\* Partial output of the focused session A is handled.
C29_Witness ==
  /\ partialDecision.handle
  /\ partialDecision.sessionId = "A"
  /\ partialDecision.focused = "A"

\* Some entry of the list with this id is enabled (what getEnabledSkills shows).
enabledIn(skills, skillId) ==
  \E i \in DOMAIN skills : skills[i].id = skillId /\ skills[i].enabled

\* C30: a stored skill is enabled only if toggleSkill(id, true) was applied to it
\* while listed and it has stayed listed since; updateSkillsList stores the listed
\* skills, each enabled exactly when it was enabled in the list before, so a skill
\* that stays keeps its state and a new one is disabled whatever its flag;
\* toggleSkill on an id that is not listed changes nothing, and neither does
\* setMarketplaceUrl change any skill.
C30_EnabledOnlyByToggleWhileListed ==
  LET stored == skillsFile.skills
  IN /\ \A i \in DOMAIN stored : stored[i].enabled => stored[i].id \in toggledOnSince
     /\ skillOp.op = "updateSkillsList" =>
          /\ Len(stored) = Len(skillOp.listed)
          /\ \A i \in DOMAIN stored :
               /\ stored[i].id = skillOp.listed[i].id
               /\ stored[i].enabled <=> enabledIn(skillOp.before, stored[i].id)
     /\ (skillOp.op = "toggleSkill" /\ skillOp.skillId \notin idsOf(skillOp.before)) =>
          stored = skillOp.before
     /\ skillOp.op = "setMarketplaceUrl" => stored = skillOp.before

====
